---- MODULE Spec2Model ----
(***************************************************************************)
(* A model of the MCP tool-execution server: the JSON-RPC protocol state   *)
(* machine, the server assembly with its built-in auth methods, the token  *)
(* minter and registry, the authorization engine and the execution         *)
(* orchestrator.                                                           *)
(***************************************************************************)
EXTENDS Integers, Sequences, FiniteSets, TLC

----------------------------------------------------------------------------
(* Bounds of the model *)

\* frames handled in one behaviour of the protocol specification
MaxProtoRequests == 3
\* frames handled in one behaviour of the authentication specification
MaxAuthRequests == 4
\* frames handled in one behaviour of the execution specification
MaxExecRequests == 3
\* how many times the clock is advanced in one behaviour
MaxClockSteps == 1
MaxPermOps == 3
MaxWireRequests == 3
MaxQuotaOps == 5
MaxStoreOps == 4
MaxIsoCalls == 1
MaxTimedRequests == 3
MaxSeconds == 2
MaxCredOps == 4
MaxCredRecords == 2
MaxProcCalls == 2
MaxTcpFrames == 2
MaxStdinLines == 2

----------------------------------------------------------------------------
(* Program constants *)

INVALID_REQUEST == -32600
METHOD_NOT_FOUND == -32601
INTERNAL_ERROR == -32603
INVALID_PARAMS == -32602
PERMISSION_DENIED == -32102
EXECUTION_ERROR == -32105

\* access_token_expire_minutes=60, refresh_token_expire_days=7, in minutes
AccessTokenExpire == 60
RefreshTokenExpire == 10080

METHOD_INITIALIZE == "initialize"
METHOD_SHUTDOWN == "shutdown"

\* the key used when a message carries no _client_id attribute
DefaultClientKey == "default-client"

\* the method table the server registers at construction
RegisteredMethods ==
    {"tools/list", "tools/call", "auth/token", "auth/refresh", "auth/revoke"}

\* the connected peers, and the values that stand for Python's None
Peers == {"p1", "p2"}
NoId == 0
None == "None"

----------------------------------------------------------------------------
(* State *)

VARIABLES
    clients,            \* MCPServer._clients: key -> ClientContext
    total_requests,     \* MCPServer._total_requests
    client_states,      \* MCPProtocolHandler._client_states: client_id -> initialized
    uuid_count,         \* how many uuid4 values have been drawn
    tools,              \* ToolManager._tools: the registered tool names
    client_permissions, \* PermissionManager._client_permissions
    perm_audit,         \* PermissionManager._audit_trail
    sandboxes,          \* ExecutionManager._sandboxes: client_id -> execution count
    execution_log,      \* ExecutionManager._execution_log
    credentials,        \* clients.json: the credential records
    tokens,             \* tokens.json: the token rows
    audit_entries,      \* audit.json: the entries
    now,                \* the wall clock, in minutes
    clock_steps,        \* how many times the clock has been advanced
    issued,             \* the token pairs and refreshed tokens handed to callers
    pc,                 \* per peer: idle, running (handler awaited), reply (response to send)
    call,               \* per peer: the tool call in flight
    response,           \* per peer: the response handle_message returned
    wire,               \* the replies handed to the transport, in order
    handler_runs,       \* the method handlers, execute_tool calls and tool handlers started
    last_check,         \* the outcome of the last PermissionManager.check_permission
    perm_revoked,       \* history: (client, type) revoked, not granted or initialized since
    perm_ops,           \* how many calls the authorization engine has served
    write_queue,        \* StdioTransport._write_queue
    stdout,             \* the lines the write loop has written to standard output
    client_usage,       \* ResourceManager._client_usage: client_id -> ResourceUsage
    allocated,          \* history: the allocations made, open or released
    usage_base,         \* history: per client, the usage no open allocation accounts for
    quota_ops,          \* how many calls the quota tracker has served
    files,              \* the store's directory: path -> file (content, mode)
    store_pc,           \* where the process stands in JSONStore._write_atomic
    store_data,         \* the data the write in progress was called with
    store_committed,    \* history: the data of the last write that returned
    store_ops,          \* how many writes and crashes have begun
    iso_dirs,           \* the client directories that exist on disk
    iso_last,           \* the last call of the isolation manager and its outcome
    iso_calls,          \* how many calls the isolation manager has served
    handler_clock,      \* per tool call: seconds since the handler started, and
                        \* whether the handler is suspended at an await
    cred_disabled,      \* history: client ids whose last set_client_enabled said False
    last_auth,          \* the last ClientManager.authenticate call and its outcome
    cred_ops,           \* how many calls the credential registry has served
    proc_pc,            \* where SubprocessExecutor.execute stands: idle, communicate, grace
    worker,             \* the worker process of the call in flight
    proc_clock,         \* seconds since the call began to wait for the worker
    proc_signals,       \* the signals the call has sent to the worker's process group
    proc_log,           \* history: how each executor call ended
    proc_calls,         \* how many executor calls have begun
    tcp_running,        \* TCPTransport.is_running
    tcp_clients,        \* TCPTransport.clients: the registered connections
    tcp_handler,        \* per peer: the task running _handle_client for it
    tcp_sent,           \* per peer: the frames the peer has written
    tcp_dispatched,     \* the frames handed to the message handler
    tcp_stop,           \* where TCPTransport.stop stands: none, closing, returned
    tcp_closing,        \* the connections stop still has to close
    st_running,         \* StdioTransport.is_running
    read_task,          \* StdioTransport._read_task: none, running, ended, cancelled
    write_task,         \* StdioTransport._write_task: none, running, ended, cancelled
    stdin,              \* the lines written to standard input and not yet read
    stdin_eof,          \* whether the peer has closed standard input
    stdin_count,        \* how many lines the peer has written
    st_queue,           \* how many replies wait in StdioTransport._write_queue
    st_out,             \* how many replies the write loop has written
    checked             \* history: the availability checks that returned allowed

protoVars == <<clients, total_requests, client_states>>
execVars == <<client_permissions, perm_audit, sandboxes, execution_log>>
authVars == <<credentials, tokens, audit_entries, issued>>
clockVars == <<now, clock_steps>>
ioVars == <<pc, call, response, wire>>
permVars == <<last_check, perm_revoked, perm_ops>>
wireVars == <<write_queue, stdout>>
quotaVars == <<client_usage, allocated, usage_base, quota_ops>>
storeVars == <<files, store_pc, store_data, store_committed, store_ops>>
isoVars == <<iso_dirs, iso_last, iso_calls>>
credVars == <<cred_disabled, last_auth, cred_ops>>
procVars == <<proc_pc, worker, proc_clock, proc_signals, proc_log, proc_calls>>
tcpVars == <<tcp_running, tcp_clients, tcp_handler, tcp_sent, tcp_dispatched,
            tcp_stop, tcp_closing>>
stdioVars == <<st_running, read_task, write_task, stdin, stdin_eof, stdin_count,
              st_queue, st_out>>
checkVars == <<checked>>
lateVars == <<credVars, procVars, tcpVars, stdioVars, checkVars>>
extraVars == <<handler_clock, lateVars>>
coreVars == <<protoVars, uuid_count, tools, execVars, authVars, clockVars, ioVars,
              handler_runs, permVars, wireVars, quotaVars, storeVars, isoVars,
              handler_clock>>
modVars == <<quotaVars, storeVars, isoVars, extraVars>>

vars == <<clients, total_requests, client_states, uuid_count, tools,
          client_permissions, perm_audit, sandboxes, execution_log,
          credentials, tokens, audit_entries, now, clock_steps, issued,
          pc, call, response, wire, handler_runs,
          last_check, perm_revoked, perm_ops, write_queue, stdout, modVars>>

----------------------------------------------------------------------------
(* Permission model.  A resource is a sequence of atoms ("/", "app", ...)  *)
(* in which the atom "*" is the glob wildcard; the empty sequence stands   *)
(* for a permission without resource (None).                               *)

NoResource == << >>

Permission(type, resource) ==
    [type |-> type, resource |-> resource, restricted |-> TRUE]

IsFileType(type) ==
    type \in {"FILE_READ", "FILE_WRITE", "FILE_DELETE", "FILE_WRITE_GLOBAL"}

RECURSIVE Fnmatch(_, _)
Fnmatch(name, pat) ==
    IF pat = << >> THEN name = << >>
    ELSE IF Head(pat) = "*"
         THEN \/ Fnmatch(name, Tail(pat))
              \/ (name # << >> /\ Fnmatch(Tail(name), pat))
         ELSE /\ name # << >>
              /\ Head(name) = Head(pat)
              /\ Fnmatch(Tail(name), Tail(pat))

\* Permission.matches: does `granted` cover `required`
Matches(granted, required) ==
    IF granted.type # required.type THEN FALSE
    ELSE IF granted.resource = NoResource THEN TRUE
    ELSE IF required.resource = NoResource THEN FALSE
    ELSE IF IsFileType(granted.type)
         THEN Fnmatch(required.resource, granted.resource)
         ELSE granted.resource = required.resource

READ_APP_DATA == Permission("FILE_READ", <<"/", "app", "/", "data", "/", "*">>)
COMMAND_LS == Permission("SYSTEM_COMMAND", <<"ls">>)
COMMAND_ECHO == Permission("SYSTEM_COMMAND", <<"echo">>)
DEFAULT_PERMISSIONS == <<READ_APP_DATA, COMMAND_LS, COMMAND_ECHO>>

ReadInput == Permission("FILE_READ", <<"/", "app", "/", "data", "/", "in">>)
WriteAny == Permission("FILE_WRITE", NoResource)

----------------------------------------------------------------------------
(* Tool descriptors and the parameters callers pass.  A parameter value is *)
(* modelled by its Python type.                                            *)

ToolCatalog ==
    ("calc" :> [name |-> "calc",
                properties |-> [x |-> "integer", y |-> "integer"],
                required |-> <<"x", "y">>,
                permissions |-> << >>,
                timeout |-> 30])
    @@
    ("read_data" :> [name |-> "read_data",
                     properties |-> [path |-> "string"],
                     required |-> << >>,
                     permissions |-> <<ReadInput>>,
                     timeout |-> 30])
    @@
    ("copy_file" :> [name |-> "copy_file",
                     properties |-> [path |-> "string"],
                     required |-> << >>,
                     permissions |-> <<ReadInput, WriteAny>>,
                     timeout |-> 1])

ToolNames == DOMAIN ToolCatalog

\* ToolManager.get: the descriptor of a registered tool
ToolExists(tool_name) == tool_name \in tools
GetTool(tool_name) == ToolCatalog[tool_name]

\* ExecutionManager._check_type
CheckType(value, expected_type) ==
    CASE expected_type = "string" -> value = "str"
      [] expected_type = "number" -> value \in {"int", "float", "bool"}
      [] expected_type = "integer" -> value \in {"int", "bool"}
      [] expected_type = "boolean" -> value = "bool"
      [] expected_type = "array" -> value = "list"
      [] expected_type = "object" -> value = "dict"
      [] expected_type = "null" -> value = "NoneType"
      [] OTHER -> TRUE

\* ExecutionManager._validate_params: TRUE when no ValidationError is raised
ValidateParams(params, schema) ==
    /\ \A i \in 1..Len(schema.required) : schema.required[i] \in DOMAIN params
    /\ \A param_name \in DOMAIN params :
          param_name \in DOMAIN schema.properties
              => CheckType(params[param_name], schema.properties[param_name])

\* the argument mappings callers pass to tools/call
ArgumentSets(tool_name) ==
    IF tool_name = "calc"
    THEN { [x |-> "int", y |-> "int"], [x |-> "int"], [x |-> "str", y |-> "int"] }
    ELSE { [path |-> "str"] }

----------------------------------------------------------------------------
(* Authorization engine (PermissionManager) *)

PermAuditEntry(event_type, client_id, data) ==
    [event_type |-> event_type, client_id |-> client_id, data |-> data]

\* a lookup that lets a client without a permission list through
HasPermissionAllowsUnknown(perms, client_id, required) ==
    \/ client_id \notin DOMAIN perms
    \/ \E i \in 1..Len(perms[client_id]) : Matches(perms[client_id][i], required)

\* PermissionManager.has_permission
HasPermission(perms, client_id, required) ==
    /\ client_id \in DOMAIN perms
    /\ \E i \in 1..Len(perms[client_id]) : Matches(perms[client_id][i], required)

\* PermissionManager.initialize_client: the permission map afterwards
InitializeClient(perms, client_id, initial_permissions) ==
    [c \in DOMAIN perms \cup {client_id} |->
        IF c = client_id THEN initial_permissions ELSE perms[c]]

\* a check that looks at the first required permission only
FirstDeniedChecksHeadOnly(perms, client_id, required_permissions) ==
    IF required_permissions # << >>
       /\ ~HasPermission(perms, client_id, required_permissions[1])
    THEN 1 ELSE 0

\* the index of the first required permission of the tool that is not granted,
\* 0 when all are: ExecutionManager._check_permissions stops there
FirstDenied(perms, client_id, required_permissions) ==
    LET denied == { i \in 1..Len(required_permissions) :
                       ~HasPermission(perms, client_id, required_permissions[i]) }
    IN IF denied = {} THEN 0
       ELSE CHOOSE i \in denied : \A j \in denied : i <= j

----------------------------------------------------------------------------
(* Token minter (JWTHandler).  A token is the record of its claims plus    *)
(* whether its signature was made with the server's key.                   *)

Jwt(sub, username, jti, iat, exp, token_type) ==
    [sub |-> sub, username |-> username, jti |-> jti, iat |-> iat,
     exp |-> exp, token_type |-> token_type, signed |-> TRUE]

\* a token that was not signed by this server
ForgedToken ==
    [sub |-> 0, username |-> "mallory", jti |-> 0, iat |-> 0,
     exp |-> RefreshTokenExpire, token_type |-> "refresh", signed |-> FALSE]

\* JWTHandler.verify: signature first, then expiry
Verify(token, time) ==
    IF ~token.signed THEN "invalid"
    ELSE IF token.exp <= time THEN "expired"
    ELSE "ok"

\* JWTHandler.generate_tokens: the pair minted at `time` with the two fresh uuids
GenerateTokens(client_id, username, time, jti, refresh_jti) ==
    [access_token |->
         Jwt(client_id, username, jti, time, time + AccessTokenExpire, "access"),
     refresh_token |->
         Jwt(client_id, username, refresh_jti, time, time + RefreshTokenExpire,
             "refresh")]

\* JWTHandler.refresh_access_token: "ok" when a new access token is minted
RefreshOutcome(refresh_token, time) ==
    IF Verify(refresh_token, time) # "ok" THEN Verify(refresh_token, time)
    ELSE IF refresh_token.token_type # "refresh" THEN "claim"
    ELSE "ok"

RefreshedToken(refresh_token, time, jti) ==
    Jwt(refresh_token.sub, refresh_token.username, jti, time,
        time + AccessTokenExpire, "access")

----------------------------------------------------------------------------
(* Token registry (TokenManager) over the rows of tokens.json *)

\* TokenManager._hash_token: SHA-256, one hash per token
HashToken(token) == [sha256 |-> token]

\* TokenRecord.revoked_at of a row that was not revoked (None)
NeverRevoked == -1

\* a create_token that keeps the revocation flag of an earlier row of the jti
CreateTokenKeepsFlag(rows, jti, client_id, username, access_token, refresh_token) ==
    Append(rows,
           [jti |-> jti, client_id |-> client_id, username |-> username,
            access_token_hash |-> HashToken(access_token),
            refresh_token_hash |-> HashToken(refresh_token),
            access_expires_at |-> access_token.exp,
            refresh_expires_at |-> refresh_token.exp,
            revoked |-> \E i \in 1..Len(rows) :
                            rows[i].jti = jti /\ rows[i].revoked,
            revoked_at |-> NeverRevoked])

\* TokenManager.create_token: the rows afterwards
CreateToken(rows, jti, client_id, username, access_token, refresh_token) ==
    Append(rows,
           [jti |-> jti, client_id |-> client_id, username |-> username,
            access_token_hash |-> HashToken(access_token),
            refresh_token_hash |-> HashToken(refresh_token),
            access_expires_at |-> access_token.exp,
            refresh_expires_at |-> refresh_token.exp,
            revoked |-> FALSE, revoked_at |-> NeverRevoked])

\* the rows whose hash of the given kind is the token's
HashRows(rows, token, token_type) ==
    { i \in 1..Len(rows) :
        \/ token_type = "access" /\ rows[i].access_token_hash = HashToken(token)
        \/ token_type = "refresh" /\ rows[i].refresh_token_hash = HashToken(token) }

FirstOf(indices) == CHOOSE i \in indices : \A j \in indices : i <= j

\* TokenManager.validate_token: the first row with the token's hash decides
ValidateToken(rows, token, token_type) ==
    LET found == HashRows(rows, token, token_type)
    IN IF found = {} THEN "not_found"
       ELSE IF rows[FirstOf(found)].revoked THEN "revoked"
       ELSE "valid"

JtiRows(rows, jti) == { i \in 1..Len(rows) : rows[i].jti = jti }

\* TokenManager.revoke_token: the first row with that jti is marked, then return
RevokeToken(rows, jti, time) ==
    [rows EXCEPT ![FirstOf(JtiRows(rows, jti))].revoked = TRUE,
                 ![FirstOf(JtiRows(rows, jti))].revoked_at = time]

\* a cleanup that goes by the expiry of the access token
CleanupExpiredByAccess(rows, time) ==
    SelectSeq(rows, LAMBDA t : t.access_expires_at > time)

\* TokenManager.cleanup_expired
CleanupExpired(rows, time) ==
    SelectSeq(rows, LAMBDA t : t.refresh_expires_at > time)

\* access_token.split(".")[-2][:8]: the first eight base64 characters of the
\* payload segment, which encode the payload's first six bytes, {"sub"
RegistryJti(access_token) == "eyJzdWIi"

\* the jti claim of a token as its text: str(uuid.uuid4())
JtiClaim(token) == ToString(token.jti)

----------------------------------------------------------------------------
(* Credential registry (ClientManager) over the records of clients.json *)

Usernames == {"alice"}
Passwords == {"secret", "wrong"}

\* ClientManager._hash_password / _verify_password
HashPassword(password) == [bcrypt |-> password]
VerifyPassword(password, password_hash) == HashPassword(password) = password_hash

FindByUsername(records, username) ==
    { i \in 1..Len(records) : records[i].username = username }

\* an authenticate that does not look at the enabled flag
AuthenticateIgnoresEnabled(records, username, password) ==
    LET found == FindByUsername(records, username)
    IN IF found = {} THEN "ClientNotFoundError"
       ELSE IF ~VerifyPassword(password, records[FirstOf(found)].password_hash)
            THEN "AuthenticationError"
       ELSE "ok"

\* ClientManager.authenticate: "ok" or the error raised
Authenticate(records, username, password) ==
    LET found == FindByUsername(records, username)
    IN IF found = {} THEN "ClientNotFoundError"
       ELSE IF ~records[FirstOf(found)].enabled THEN "AuthenticationError"
       ELSE IF ~VerifyPassword(password, records[FirstOf(found)].password_hash)
            THEN "AuthenticationError"
       ELSE "ok"

FindByClientId(records, client_id) ==
    { i \in 1..Len(records) : records[i].client_id = client_id }

\* ClientManager.set_client_enabled: the first record of the id gets the flag
SetEnabled(records, client_id, enabled) ==
    [records EXCEPT ![FirstOf(FindByClientId(records, client_id))].enabled = enabled]

\* ClientManager.delete_client: the first record of the id is popped
DeleteRecord(records, client_id) ==
    LET i == FirstOf(FindByClientId(records, client_id))
    IN SubSeq(records, 1, i - 1) \o SubSeq(records, i + 1, Len(records))

NoAuth == [username |-> "", password |-> "", outcome |-> "none"]

\* AuditLogger.log_event: the entries afterwards
LogEvent(entries, event_type, client_id, username, status, details) ==
    Append(entries, [event_type |-> event_type, client_id |-> client_id,
                     username |-> username, status |-> status,
                     details |-> details])

----------------------------------------------------------------------------
(* Messages, responses and the protocol state machine *)

Message(method, params, id) == [method |-> method, params |-> params, id |-> id]

\* the response of a handled request: a TransportMessage carrying the result
ResultResponse(msg, result_tokens) ==
    [kind |-> "result", id |-> msg.id, code |-> 0, method |-> msg.method,
     tokens |-> result_tokens]

\* MCPProtocolHandler._error_response: a TransportError
ErrorResponse(msg, error_code) ==
    [kind |-> "error", id |-> msg.id, code |-> error_code, method |-> msg.method,
     tokens |-> {}]

\* getattr(message, "_client_id", "default-client"): TransportMessage has no
\* such field and no transport sets one
ClientKey(msg) == DefaultClientKey

\* ClientContext(): a context with a fresh uuid as client_id
ClientContext(uuid) ==
    [client_id |-> uuid, request_count |-> 0, authenticated |-> FALSE,
     user_id |-> 0, username |-> None]

\* MCPProtocolHandler._get_client_state: the state map with client_id's entry
GetClientState(states, client_id) ==
    IF client_id \in DOMAIN states THEN states
    ELSE (client_id :> FALSE) @@ states

\* the branch MCPProtocolHandler.handle_message takes for a method, given
\* whether the client's state is initialized
Route(method, initialized) ==
    IF method = METHOD_INITIALIZE THEN "initialize"
    ELSE IF method = METHOD_SHUTDOWN THEN "shutdown"
    ELSE IF ~initialized THEN "not_initialized"
    ELSE IF method \in RegisteredMethods THEN "handler"
    ELSE "method_not_found"

\* the response is kept for the transport; a handled notification has none
Respond(p, resp) ==
    /\ pc' = [pc EXCEPT ![p] = "reply"]
    /\ response' = [response EXCEPT ![p] = resp]

\* the reply of a registered handler that returned: a result for a request,
\* nothing for a notification (a falsy request_id)
RespondResult(p, msg, result_tokens) ==
    IF msg.id # NoId
    THEN Respond(p, ResultResponse(msg, result_tokens))
    ELSE pc' = [pc EXCEPT ![p] = "idle"] /\ UNCHANGED response

\* a raised handler answered as if it had returned
RespondRaisedAsResult(p, msg) == Respond(p, ResultResponse(msg, {}))

\* a handler that raised: handle_message answers INTERNAL_ERROR
RespondRaised(p, msg) == Respond(p, ErrorResponse(msg, INTERNAL_ERROR))

HandlerRun(kind, name, p, ctx, number) ==
    [kind |-> kind, name |-> name, peer |-> p, client_id |-> ctx.client_id,
     authenticated |-> ctx.authenticated, request |-> number]

----------------------------------------------------------------------------
(* Execution orchestrator (ExecutionManager.execute_tool) *)

NoCall == [tool |-> "", client_id |-> 0, msg |-> Message("", << >>, NoId),
           request |-> 0]

\* steps 1 and 2 of execute_tool, in the code's order: validate the
\* parameters, then check every required permission; "run" when both pass
ExecuteDecision(tool, perms, client_id, params) ==
    IF ~ValidateParams(params, tool) THEN "validation_error"
    ELSE IF FirstDenied(perms, client_id, tool.permissions) # 0
         THEN "permission_denied"
    ELSE "run"

\* a _log_execution that writes nothing for a call that timed out
LogExecutionDropsTimeout(log, client_id, tool_name, status, request) ==
    IF status = "timeout" THEN log
    ELSE Append(log, [event_type |-> "tool_executed", client_id |-> client_id,
                      tool_name |-> tool_name, status |-> status,
                      request |-> request])

\* a _log_execution that writes nothing for a denied call
LogExecutionDropsDenied(log, client_id, tool_name, status, request) ==
    IF status = "permission_denied" THEN log
    ELSE Append(log, [event_type |-> "tool_executed", client_id |-> client_id,
                      tool_name |-> tool_name, status |-> status,
                      request |-> request])

\* ExecutionManager._log_execution: the log afterwards.  `request` numbers
\* the call the entry belongs to (execution_id in the code)
LogExecution(log, client_id, tool_name, status, request) ==
    Append(log, [event_type |-> "tool_executed", client_id |-> client_id,
                 tool_name |-> tool_name, status |-> status,
                 request |-> request])

\* ExecutionManager.get_sandbox + SandboxContext.increment_execution_count
IncrementExecutionCount(boxes, client_id) ==
    IF client_id \in DOMAIN boxes
    THEN [boxes EXCEPT ![client_id] = @ + 1]
    ELSE (client_id :> 1) @@ boxes

\* MCPServer._handle_tools_call up to the point where the tool handler is
\* awaited: tool lookup, permission initialisation, validate, authorize,
\* acquire sandbox, start the handler
HandleToolsCall(p, msg, ctx, number) ==
    LET name == msg.params.name
        cid == ctx.client_id
        this == HandlerRun("method", msg.method, p, ctx, number)
        \* the call of ExecutionManager.execute_tool
        execute == HandlerRun("execute", name, p, ctx, number)
    IN IF name = "" \/ ~ToolExists(name)
       THEN \* ValueError: "Tool name is required" / "Tool not found"
            /\ RespondRaised(p, msg)
            /\ handler_runs' = handler_runs \cup {this}
            /\ UNCHANGED <<execVars, call>>
       ELSE LET tool == GetTool(name)
                known == cid \in DOMAIN client_permissions
                perms == IF known THEN client_permissions
                         ELSE InitializeClient(client_permissions, cid,
                                               DEFAULT_PERMISSIONS)
                trail == IF known THEN perm_audit
                         ELSE Append(perm_audit,
                                     PermAuditEntry("client_initialized", cid,
                                                    DEFAULT_PERMISSIONS))
                decision == ExecuteDecision(tool, perms, cid, msg.params.arguments)
                denied == FirstDenied(perms, cid, tool.permissions)
            IN /\ client_permissions' = perms
               /\ CASE decision = "validation_error" ->
                        /\ perm_audit' = trail
                        /\ execution_log' =
                               LogExecution(execution_log, cid, name,
                                            "validation_error", number)
                        /\ RespondRaised(p, msg)
                        /\ handler_runs' = handler_runs \cup {this, execute}
                        /\ UNCHANGED <<sandboxes, call>>
                    [] decision = "permission_denied" ->
                        /\ perm_audit' =
                               Append(trail,
                                      PermAuditEntry("permission_denied", cid,
                                                     <<tool.permissions[denied]>>))
                        /\ execution_log' =
                               LogExecution(execution_log, cid, name,
                                            "permission_denied", number)
                        /\ RespondRaised(p, msg)
                        /\ handler_runs' = handler_runs \cup {this, execute}
                        /\ UNCHANGED <<sandboxes, call>>
                    [] decision = "run" ->
                        /\ perm_audit' = trail
                        /\ sandboxes' = IncrementExecutionCount(sandboxes, cid)
                        /\ pc' = [pc EXCEPT ![p] = "running"]
                        /\ call' = [call EXCEPT ![p] =
                                       [tool |-> name, client_id |-> cid,
                                        msg |-> msg, request |-> number]]
                        /\ handler_runs' = handler_runs \cup
                               {this, execute,
                                HandlerRun("tool", name, p, ctx, number)}
                        /\ UNCHANGED <<execution_log, response>>

\* the awaited tool handler returns: log success, shape the result
ToolReturns(p) ==
    /\ pc[p] = "running"
    /\ execution_log' = LogExecution(execution_log, call[p].client_id,
                                     call[p].tool, "success", call[p].request)
    /\ RespondResult(p, call[p].msg, {})
    /\ call' = [call EXCEPT ![p] = NoCall]
    /\ UNCHANGED <<protoVars, uuid_count, tools, client_permissions, perm_audit,
                   sandboxes, authVars, clockVars, wire, handler_runs>>
    /\ UNCHANGED <<permVars, wireVars, modVars>>

\* the awaited tool handler raises: log error, raise ExecutionError
ToolRaises(p) ==
    /\ pc[p] = "running"
    /\ execution_log' = LogExecution(execution_log, call[p].client_id,
                                     call[p].tool, "error", call[p].request)
    /\ RespondRaised(p, call[p].msg)
    /\ call' = [call EXCEPT ![p] = NoCall]
    /\ UNCHANGED <<protoVars, uuid_count, tools, client_permissions, perm_audit,
                   sandboxes, authVars, clockVars, wire, handler_runs>>
    /\ UNCHANGED <<permVars, wireVars, modVars>>

\* asyncio.wait_for gives up after tool.timeout: log timeout, raise
\* ExecutionTimeout
ToolTimesOut(p) ==
    /\ pc[p] = "running"
    /\ execution_log' = LogExecution(execution_log, call[p].client_id,
                                     call[p].tool, "timeout", call[p].request)
    /\ RespondRaised(p, call[p].msg)
    /\ call' = [call EXCEPT ![p] = NoCall]
    /\ UNCHANGED <<protoVars, uuid_count, tools, client_permissions, perm_audit,
                   sandboxes, authVars, clockVars, wire, handler_runs>>
    /\ UNCHANGED <<permVars, wireVars, modVars>>

----------------------------------------------------------------------------
(* Built-in auth methods of the server assembly *)

\* MCPServer._handle_auth_token
HandleAuthToken(p, msg, key, cl, uuids) ==
    LET username == msg.params.username
        password == msg.params.password
        outcome == Authenticate(credentials, username, password)
    IN IF username = "" \/ password = ""
       THEN \* ValueError: username and password required
            /\ RespondRaised(p, msg)
            /\ clients' = cl
            /\ uuid_count' = uuids
            /\ UNCHANGED <<tokens, audit_entries, issued>>
       ELSE IF outcome = "ok"
       THEN LET client_record ==
                    credentials[FirstOf(FindByUsername(credentials, username))]
                token_pair ==
                    GenerateTokens(client_record.client_id, client_record.username,
                                   now, uuids + 1, uuids + 2)
            IN /\ uuid_count' = uuids + 2
               /\ tokens' = CreateToken(tokens,
                                        RegistryJti(token_pair.access_token),
                                        client_record.client_id,
                                        client_record.username,
                                        token_pair.access_token,
                                        token_pair.refresh_token)
               /\ audit_entries' = LogEvent(audit_entries, "auth_success",
                                            client_record.client_id,
                                            client_record.username, "success", "")
               /\ clients' = [cl EXCEPT ![key].authenticated = TRUE,
                                        ![key].user_id = client_record.client_id,
                                        ![key].username = client_record.username]
               /\ issued' = issued \cup {token_pair.access_token,
                                         token_pair.refresh_token}
               /\ RespondResult(p, msg, {token_pair.access_token,
                                         token_pair.refresh_token})
       ELSE \* ClientError: log the failure, raise ValueError
            /\ audit_entries' = LogEvent(audit_entries, "auth_failed", 0,
                                         username, "failure", "")
            /\ RespondRaised(p, msg)
            /\ clients' = cl
            /\ uuid_count' = uuids
            /\ UNCHANGED <<tokens, issued>>

\* MCPServer._handle_auth_refresh
HandleAuthRefresh(p, msg, key, cl, uuids) ==
    LET refresh_token == msg.params.refresh_token
    IN /\ clients' = cl
       /\ UNCHANGED tokens
       /\ IF ~msg.params.has_token
          THEN \* ValueError: refresh_token required
               /\ RespondRaised(p, msg)
               /\ uuid_count' = uuids
               /\ UNCHANGED <<audit_entries, issued>>
          ELSE IF RefreshOutcome(refresh_token, now) = "ok"
          THEN LET access_token == RefreshedToken(refresh_token, now, uuids + 1)
               IN /\ uuid_count' = uuids + 1
                  /\ audit_entries' =
                         LogEvent(audit_entries, "auth_token_refresh",
                                  cl[key].user_id, cl[key].username, "success",
                                  "")
                  /\ issued' = issued \cup {access_token}
                  /\ RespondResult(p, msg, {access_token})
          ELSE \* JWTError: raise ValueError
               /\ RespondRaised(p, msg)
               /\ uuid_count' = uuids
               /\ UNCHANGED <<audit_entries, issued>>

\* MCPServer._handle_auth_revoke
HandleAuthRevoke(p, msg, key, cl, uuids) ==
    LET jti == msg.params.jti
    IN /\ clients' = cl
       /\ uuid_count' = uuids
       /\ UNCHANGED issued
       /\ IF jti = "" \/ JtiRows(tokens, jti) = {}
          THEN \* ValueError: jti required / TokenNotFoundError
               /\ RespondRaised(p, msg)
               /\ UNCHANGED <<tokens, audit_entries>>
          ELSE /\ tokens' = RevokeToken(tokens, jti, now)
               /\ audit_entries' =
                      LogEvent(audit_entries, "auth_token_revoked",
                               cl[key].user_id, cl[key].username, "success",
                               jti)
               /\ RespondResult(p, msg, {})

----------------------------------------------------------------------------
(* The server's message handler *)

\* MCPProtocolHandler.handle_message for the message `msg` of peer `p`, with
\* `cl` the client table after the get-or-create of the caller's context
HandleMessage(p, msg, key, cl, uuids, number) ==
    LET ctx == cl[key]
        cid == ctx.client_id
        states == GetClientState(client_states, cid)
        branch == Route(msg.method, states[cid])
    IN CASE branch = "initialize" ->
              /\ client_states' = [states EXCEPT ![cid] = TRUE]
              /\ Respond(p, ResultResponse(msg, {}))
              /\ clients' = cl
              /\ uuid_count' = uuids
              /\ UNCHANGED <<execVars, authVars, call, handler_runs>>
         [] branch = "shutdown" ->
              /\ client_states' = [states EXCEPT ![cid] = FALSE]
              /\ Respond(p, ResultResponse(msg, {}))
              /\ clients' = cl
              /\ uuid_count' = uuids
              /\ UNCHANGED <<execVars, authVars, call, handler_runs>>
         [] branch = "not_initialized" ->
              /\ client_states' = states
              /\ Respond(p, ErrorResponse(msg, INVALID_REQUEST))
              /\ clients' = cl
              /\ uuid_count' = uuids
              /\ UNCHANGED <<execVars, authVars, call, handler_runs>>
         [] branch = "method_not_found" ->
              /\ client_states' = states
              /\ Respond(p, ErrorResponse(msg, METHOD_NOT_FOUND))
              /\ clients' = cl
              /\ uuid_count' = uuids
              /\ UNCHANGED <<execVars, authVars, call, handler_runs>>
         [] branch = "handler" /\ msg.method = "tools/list" ->
              /\ client_states' = states
              /\ RespondResult(p, msg, {})
              /\ handler_runs' = handler_runs \cup
                                    {HandlerRun("method", msg.method, p, ctx, number)}
              /\ clients' = cl
              /\ uuid_count' = uuids
              /\ UNCHANGED <<execVars, authVars, call>>
         [] branch = "handler" /\ msg.method = "tools/call" ->
              /\ client_states' = states
              /\ HandleToolsCall(p, msg, ctx, number)
              /\ clients' = cl
              /\ uuid_count' = uuids
              /\ UNCHANGED authVars
         [] branch = "handler" /\ msg.method = "auth/token" ->
              /\ client_states' = states
              /\ HandleAuthToken(p, msg, key, cl, uuids)
              /\ handler_runs' = handler_runs \cup
                                    {HandlerRun("method", msg.method, p, ctx, number)}
              /\ UNCHANGED <<execVars, credentials, call>>
         [] branch = "handler" /\ msg.method = "auth/refresh" ->
              /\ client_states' = states
              /\ HandleAuthRefresh(p, msg, key, cl, uuids)
              /\ handler_runs' = handler_runs \cup
                                    {HandlerRun("method", msg.method, p, ctx, number)}
              /\ UNCHANGED <<execVars, credentials, call>>
         [] branch = "handler" /\ msg.method = "auth/revoke" ->
              /\ client_states' = states
              /\ HandleAuthRevoke(p, msg, key, cl, uuids)
              /\ handler_runs' = handler_runs \cup
                                    {HandlerRun("method", msg.method, p, ctx, number)}
              /\ UNCHANGED <<execVars, credentials, call>>

(* The awaited handler under asyncio.wait_for.  The handler is a coroutine *)
(* on the server's event loop: the timer of wait_for and the cancellation  *)
(* it requests act only while the handler is suspended at an await.        *)

HandlerStarted == [elapsed |-> 0, suspended |-> FALSE]

\* the clock of the handler of the call in flight for peer p
ClockOf(p) ==
    IF call[p].request \in DOMAIN handler_clock
    THEN handler_clock[call[p].request] ELSE HandlerStarted

SetClock(p, clock) ==
    handler_clock' = (call[p].request :> clock) @@ handler_clock

\* tool.timeout of the call in flight
TimeoutOf(p) == GetTool(call[p].tool).timeout

TimerUnchanged ==
    UNCHANGED <<protoVars, uuid_count, tools, execVars, authVars, clockVars,
                ioVars, handler_runs, permVars, wireVars, quotaVars, storeVars,
                isoVars, lateVars>>

\* the handler computes for a second without reaching an await
HandlerWorks(p) ==
    /\ pc[p] = "running"
    /\ ~ClockOf(p).suspended
    /\ ClockOf(p).elapsed < MaxSeconds
    /\ SetClock(p, [ClockOf(p) EXCEPT !.elapsed = @ + 1])
    /\ TimerUnchanged

\* the handler reaches an await and gives the event loop control
HandlerAwaits(p) ==
    /\ pc[p] = "running"
    /\ ~ClockOf(p).suspended
    /\ SetClock(p, [ClockOf(p) EXCEPT !.suspended = TRUE])
    /\ TimerUnchanged

\* a second passes while the handler is suspended and the timer is not due
HandlerWaits(p) ==
    /\ pc[p] = "running"
    /\ ClockOf(p).suspended
    /\ ClockOf(p).elapsed < TimeoutOf(p)
    /\ ClockOf(p).elapsed < MaxSeconds
    /\ SetClock(p, [ClockOf(p) EXCEPT !.elapsed = @ + 1])
    /\ TimerUnchanged

\* what the handler awaited is ready before the timer is due
HandlerResumes(p) ==
    /\ pc[p] = "running"
    /\ ClockOf(p).suspended
    /\ ClockOf(p).elapsed < TimeoutOf(p)
    /\ SetClock(p, [ClockOf(p) EXCEPT !.suspended = FALSE])
    /\ TimerUnchanged

\* the timer of wait_for is due while the handler is suspended: the handler
\* is cancelled at its await, ExecutionTimeout is raised
TimerFires(p) ==
    /\ pc[p] = "running"
    /\ ClockOf(p).suspended
    /\ ClockOf(p).elapsed >= TimeoutOf(p)
    /\ ToolTimesOut(p)

\* the handler runs to its return statement
HandlerReturns(p) ==
    /\ pc[p] = "running"
    /\ ~ClockOf(p).suspended
    /\ ToolReturns(p)

\* the handler raises
HandlerRaises(p) ==
    /\ pc[p] = "running"
    /\ ~ClockOf(p).suspended
    /\ ToolRaises(p)

----------------------------------------------------------------------------
\* MCPServer._handle_transport_message up to the first suspension: get or
\* create the client context, count the request, run the protocol handler
HandleTransportMessage(p, msg) ==
    /\ pc[p] = "idle"
    /\ LET key == ClientKey(msg)
           fresh == key \notin DOMAIN clients
           table == IF fresh THEN (key :> ClientContext(uuid_count + 1)) @@ clients
                    ELSE clients
           uuids == IF fresh THEN uuid_count + 1 ELSE uuid_count
           \* ClientContext.record_request
           cl == [table EXCEPT ![key].request_count = @ + 1]
       IN /\ total_requests' = total_requests + 1
          /\ HandleMessage(p, msg, key, cl, uuids, total_requests + 1)
    /\ UNCHANGED <<tools, clockVars, wire>>
    /\ UNCHANGED <<permVars, wireVars, modVars>>

\* a queue that hands out the newest item first
QueuePutFront(queue, item) == <<item>> \o queue

\* StdioTransport.send_message / send_error: asyncio.Queue.put
QueuePut(queue, item) == Append(queue, item)

\* TransportMessage.to_jsonrpc / TransportError.to_jsonrpc_error and
\* json.dumps: the line carries the id and either a result or an error code
JsonLine(item) ==
    IF item.reply.kind = "error"
    THEN [peer |-> item.peer, id |-> item.reply.id, error |-> item.reply.code]
    ELSE [peer |-> item.peer, id |-> item.reply.id, error |-> 0]

\* the response is handed to the transport (send_message / send_error)
Send(p) ==
    /\ pc[p] = "reply"
    /\ wire' = Append(wire, [peer |-> p, reply |-> response[p]])
    /\ write_queue' = QueuePut(write_queue, [peer |-> p, reply |-> response[p]])
    /\ pc' = [pc EXCEPT ![p] = "idle"]
    /\ UNCHANGED <<protoVars, uuid_count, tools, execVars, authVars, clockVars,
                   call, response, handler_runs>>
    /\ UNCHANGED <<permVars, stdout, modVars>>

\* StdioTransport._write_loop: take the oldest queued item, serialize it,
\* write the line to standard output
WriteLine ==
    /\ write_queue # << >>
    /\ stdout' = Append(stdout, JsonLine(Head(write_queue)))
    /\ write_queue' = Tail(write_queue)
    /\ UNCHANGED <<protoVars, uuid_count, tools, execVars, authVars, clockVars,
                   ioVars, handler_runs, permVars, modVars>>

----------------------------------------------------------------------------
(* Quota tracker (ResourceManager).  Memory is counted in MB.              *)

ResourceUsage == [memory_mb |-> 0, concurrent_processes |-> 0]
ResourceRequirement(memory_mb) == [given |-> TRUE, memory_mb |-> memory_mb]
\* release called without `used` (None)
NoRequirement == [given |-> FALSE, memory_mb |-> 0]

Max(a, b) == IF a >= b THEN a ELSE b

\* ResourceManager.get_client_usage: the record is created on first use
GetClientUsage(usage, client_id) ==
    IF client_id \in DOMAIN usage THEN usage
    ELSE (client_id :> ResourceUsage) @@ usage

\* ResourceManager.allocate, on the client's usage record
AllocateUsage(usage, required) ==
    [memory_mb |-> usage.memory_mb + required.memory_mb,
     concurrent_processes |-> usage.concurrent_processes + 1]

\* a release that never gives memory back
ReleaseKeepsMemory(usage, used) ==
    [memory_mb |-> usage.memory_mb,
     concurrent_processes |->
         IF usage.concurrent_processes > 0
         THEN usage.concurrent_processes - 1 ELSE usage.concurrent_processes]

\* a release that subtracts without looking at what is left
ReleaseUnclamped(usage, used) ==
    [memory_mb |-> IF used.given THEN usage.memory_mb - used.memory_mb
                   ELSE usage.memory_mb,
     concurrent_processes |-> usage.concurrent_processes - 1]

\* ResourceManager.release, on the client's usage record
ReleaseUsage(usage, used) ==
    [memory_mb |->
         IF used.given /\ used.memory_mb > 0
         THEN Max(0, usage.memory_mb - used.memory_mb) ELSE usage.memory_mb,
     concurrent_processes |->
         IF usage.concurrent_processes > 0
         THEN usage.concurrent_processes - 1 ELSE usage.concurrent_processes]

OpenAllocations(client_id) ==
    { a \in allocated : a.client_id = client_id /\ a.open }

\* ResourceManager.allocate
Allocate(client_id, pid, required) ==
    LET usage == GetClientUsage(client_usage, client_id)
    IN /\ client_usage' =
              [usage EXCEPT ![client_id] = AllocateUsage(@, required)]
       /\ allocated' = allocated \cup
              {[client_id |-> client_id, pid |-> pid, required |-> required,
                open |-> TRUE]}
       /\ usage_base' = GetClientUsage(usage_base, client_id)
       /\ UNCHANGED <<protoVars, uuid_count, tools, execVars, authVars,
                      clockVars, ioVars, handler_runs, permVars, wireVars,
                      storeVars, isoVars, extraVars>>

\* ResourceManager.release.  The history closes the allocation when the call
\* names an open allocation with the requirement it was made with; any other
\* release re-bases the client's history on the usage it leaves.
Release(client_id, pid, used) ==
    LET usage == GetClientUsage(client_usage, client_id)
        after == ReleaseUsage(usage[client_id], used)
        mine == [client_id |-> client_id, pid |-> pid, required |-> used,
                 open |-> TRUE]
    IN /\ client_usage' = [usage EXCEPT ![client_id] = after]
       /\ IF mine \in allocated
          THEN /\ allocated' = (allocated \ {mine}) \cup
                               {[mine EXCEPT !.open = FALSE]}
               /\ usage_base' = usage_base
          ELSE /\ allocated' = allocated \ OpenAllocations(client_id)
               /\ usage_base' =
                      [GetClientUsage(usage_base, client_id)
                          EXCEPT ![client_id] = after]
       /\ UNCHANGED <<protoVars, uuid_count, tools, execVars, authVars,
                      clockVars, ioVars, handler_runs, permVars, wireVars,
                      storeVars, isoVars, extraVars>>

\* the default quotas of a client
ClientQuotas == [memory_mb |-> 512, concurrent_processes |-> 5]

\* ResourceManager.check_availability, on the client's usage record
CheckAvailability(usage, quotas, required, has_quota_override) ==
    \/ has_quota_override
    \/ /\ usage.memory_mb + required.memory_mb <= quotas.memory_mb
       /\ usage.concurrent_processes < quotas.concurrent_processes

\* a caller asks without override whether `required` is available for the
\* process it is about to start; the usage record is created on first use
CheckCall(client_id, pid, required) ==
    LET usage == GetClientUsage(client_usage, client_id)
    IN /\ client_usage' = usage
       /\ usage_base' = GetClientUsage(usage_base, client_id)
       /\ checked' =
              IF CheckAvailability(usage[client_id], ClientQuotas, required, FALSE)
              THEN checked \cup {[client_id |-> client_id, pid |-> pid,
                                  required |-> required]}
              ELSE checked
       /\ UNCHANGED <<protoVars, uuid_count, tools, execVars, authVars,
                      clockVars, ioVars, handler_runs, permVars, wireVars,
                      allocated, storeVars, isoVars, handler_clock, credVars,
                      procVars, tcpVars, stdioVars>>

----------------------------------------------------------------------------
(* JSON document store (JSONStore).  A file is its content, a sequence of  *)
(* the chunks written so far, and its permission bits.  A JSON value is    *)
(* serialized as an opening chunk, the value and a closing chunk.          *)

OwnerOnly == 384
CreateBits == 438
Umasks == {18, 63}

FilePath == [stem |-> "clients", suffix |-> ".json"]
DefaultData == "default"
StoreData == {"default", "v1", "v2"}
NoFile == [exists |-> FALSE, content |-> << >>, mode |-> 0]

\* the bits set in both a and b
RECURSIVE BitAnd(_, _)
BitAnd(a, b) ==
    IF a = 0 \/ b = 0 THEN 0
    ELSE (a % 2) * (b % 2) + 2 * BitAnd(a \div 2, b \div 2)

\* the mode open(path, 'w') creates a file with: 0o666 & ~umask
CreateMode(umask) == CreateBits - BitAnd(CreateBits, umask)

\* json.dump(data, f, indent=2, default=str)
JsonDump(data) == <<"{", data, "}">>

\* json.load: the value of a complete document, None otherwise
JsonLoad(content) ==
    IF Len(content) = 3 /\ content[1] = "{" /\ content[3] = "}"
    THEN content[2] ELSE None

\* a write that goes to the target itself
TempPathIsTarget(file_path) == file_path

\* self.file_path.with_suffix('.tmp')
TempPath(file_path) == [stem |-> file_path.stem, suffix |-> ".tmp"]

\* open(temp_path, 'w'): an existing file is truncated and keeps its mode,
\* a missing one is created with the mode the umask leaves
OpenForWriting(dir, path, umask) ==
    [dir EXCEPT ![path] =
        [exists |-> TRUE, content |-> << >>,
         mode |-> IF dir[path].exists THEN dir[path].mode
                  ELSE CreateMode(umask)]]

\* Path.replace: rename over the target
Replace(dir, from, to) ==
    IF from = to THEN dir
    ELSE [dir EXCEPT ![to] = dir[from], ![from] = NoFile]

StoreUnchanged ==
    UNCHANGED <<protoVars, uuid_count, tools, execVars, authVars, clockVars,
                ioVars, handler_runs, permVars, wireVars, quotaVars, isoVars,
                extraVars>>

\* _write_atomic up to the open of the temp file
BeginWrite(data) ==
    /\ \E umask \in Umasks :
           files' = OpenForWriting(files, TempPath(FilePath), umask)
    /\ store_data' = data
    /\ store_pc' = "open"

\* JSONStore.__init__: an existing file is left alone, a missing one is
\* written with the default data
StoreConstruct ==
    /\ store_pc = "new"
    /\ IF files[FilePath].exists
       THEN /\ store_pc' = "idle"
            /\ store_committed' = JsonLoad(files[FilePath].content)
            /\ UNCHANGED <<files, store_data>>
       ELSE /\ BeginWrite(DefaultData)
            /\ UNCHANGED store_committed
    /\ UNCHANGED store_ops
    /\ StoreUnchanged

\* JSONStore.save
StoreSave(data) ==
    /\ store_pc = "idle"
    /\ BeginWrite(data)
    /\ store_ops' = store_ops + 1
    /\ UNCHANGED store_committed
    /\ StoreUnchanged

\* json.dump writes the next chunk of the document to the temp file; after
\* the last one the file is closed
StoreWrite ==
    /\ store_pc = "open"
    /\ LET temp == TempPath(FilePath)
           done == Len(files[temp].content)
           text == JsonDump(store_data)
       IN /\ files' = [files EXCEPT ![temp].content = Append(@, text[done + 1])]
          /\ store_pc' = IF done + 1 = Len(text) THEN "closed" ELSE "open"
    /\ UNCHANGED <<store_data, store_committed, store_ops>>
    /\ StoreUnchanged

\* a write to the temp file fails: JSONStoreIOError, the temp file stays
StoreWriteFails ==
    /\ store_pc = "open"
    /\ store_pc' = "idle"
    /\ UNCHANGED <<files, store_data, store_committed, store_ops>>
    /\ StoreUnchanged

\* temp_path.replace(self.file_path)
StoreReplace ==
    /\ store_pc = "closed"
    /\ files' = Replace(files, TempPath(FilePath), FilePath)
    /\ store_pc' = "replaced"
    /\ UNCHANGED <<store_data, store_committed, store_ops>>
    /\ StoreUnchanged

\* self.file_path.chmod(0o600); the write returns
StoreChmod ==
    /\ store_pc = "replaced"
    /\ files' = [files EXCEPT ![FilePath].mode = OwnerOnly]
    /\ store_pc' = "idle"
    /\ store_committed' = store_data
    /\ UNCHANGED <<store_data, store_ops>>
    /\ StoreUnchanged

\* the process dies; the files stay as they are
StoreCrash ==
    /\ store_pc # "new"
    /\ store_ops < MaxStoreOps
    /\ store_pc' = "new"
    /\ store_ops' = store_ops + 1
    /\ UNCHANGED <<files, store_data, store_committed>>
    /\ StoreUnchanged

----------------------------------------------------------------------------
(* Client jails (ClientIsolationManager).  A path is its components and    *)
(* whether it starts at the root; a path string is given the same way,     *)
(* before pathlib has normalised it.  The directories hold no symbolic     *)
(* links.                                                                  *)

PathOf(absolute, parts) == [absolute |-> absolute, parts |-> parts]
Cwd == PathOf(TRUE, <<"home">>)

\* the name holds two dots in a row
HasDotDot(name) == name \in {"..", "x..y"}

\* Path(s): components that are "." are dropped
ParsePath(s) == PathOf(s.absolute, SelectSeq(s.parts, LAMBDA n : n # "."))

\* Path.is_absolute
IsAbsolute(path) == path.absolute

\* a test that looks at the first component only
ContainsDotDotAtHead(path) ==
    path.parts # << >> /\ HasDotDot(path.parts[1])

\* ".." in str(path)
ContainsDotDot(path) ==
    \E i \in 1..Len(path.parts) : HasDotDot(path.parts[i])

\* dir / path
Join(dir, path) ==
    IF path.absolute THEN path
    ELSE PathOf(dir.absolute, dir.parts \o path.parts)

\* the components with every ".." applied to what precedes it
RECURSIVE Collapse(_, _)
Collapse(done, rest) ==
    IF rest = << >> THEN done
    ELSE IF Head(rest) = "."
         THEN Collapse(done, Tail(rest))
    ELSE IF Head(rest) = ".."
         THEN Collapse(IF done = << >> THEN done
                       ELSE SubSeq(done, 1, Len(done) - 1), Tail(rest))
    ELSE Collapse(Append(done, Head(rest)), Tail(rest))

\* Path.resolve: absolute, without "." and ".."
Resolve(path) ==
    PathOf(TRUE, Collapse(<< >>, Join(Cwd, path).parts))

\* a comparison that stops at the parent of `dir`
RelativeToParent(path, dir) ==
    /\ path.absolute = dir.absolute
    /\ Len(path.parts) >= Len(dir.parts) - 1
    /\ SubSeq(path.parts, 1, Len(dir.parts) - 1)
           = SubSeq(dir.parts, 1, Len(dir.parts) - 1)

\* Path.relative_to succeeds: `dir` is a leading part of `path`
RelativeTo(path, dir) ==
    /\ path.absolute = dir.absolute
    /\ Len(path.parts) >= Len(dir.parts)
    /\ SubSeq(path.parts, 1, Len(dir.parts)) = dir.parts

\* ClientIsolationManager.get_client_directory: base_dir / client_id
ClientDirectory(base_dir, client_id) == Join(base_dir, PathOf(FALSE, <<client_id>>))

IsoOutcome(op, base_dir, client_id, path, cross, raised, returned, result) ==
    [op |-> op, base_dir |-> base_dir, client_id |-> client_id, path |-> path,
     cross |-> cross, raised |-> raised, returned |-> returned,
     result |-> result]

NoIsoCall ==
    IsoOutcome("", PathOf(FALSE, << >>), "", PathOf(FALSE, << >>), FALSE,
               FALSE, FALSE, PathOf(FALSE, << >>))

IsoUnchanged ==
    UNCHANGED <<protoVars, uuid_count, tools, execVars, authVars, clockVars,
                ioVars, handler_runs, permVars, wireVars, quotaVars, storeVars,
                extraVars>>

\* ClientIsolationManager.resolve_path
ResolvePath(base_dir, client_id, relative_path) ==
    LET client_dir == ClientDirectory(base_dir, client_id)
        parsed == ParsePath(relative_path)
        resolved == Resolve(Join(client_dir, relative_path))
        escapes == \/ IsAbsolute(parsed)
                   \/ ContainsDotDot(parsed)
                   \/ ~RelativeTo(resolved, client_dir)
    IN /\ iso_dirs' = iso_dirs \cup {client_dir}
       /\ iso_last' =
              IF escapes
              THEN IsoOutcome("resolve_path", base_dir, client_id,
                              relative_path, FALSE, TRUE, FALSE,
                              PathOf(FALSE, << >>))
              ELSE IsoOutcome("resolve_path", base_dir, client_id,
                              relative_path, FALSE, FALSE, TRUE, resolved)
       /\ IsoUnchanged

\* ClientIsolationManager.validate_access; `result` is the resolved target
ValidateAccess(base_dir, client_id, target_path, cross_client_permission) ==
    LET client_dir == ClientDirectory(base_dir, client_id)
        target == Resolve(ParsePath(target_path))
        allowed == RelativeTo(target, client_dir) \/ cross_client_permission
    IN /\ iso_dirs' = iso_dirs \cup {client_dir}
       /\ iso_last' = IsoOutcome("validate_access", base_dir, client_id,
                                 target_path, cross_client_permission, FALSE,
                                 allowed, target)
       /\ IsoUnchanged

----------------------------------------------------------------------------
(* Operations of the embedding application and of time *)

\* ClientManager.create_client
CreateClient(username, password) ==
    /\ FindByUsername(credentials, username) = {}
    /\ credentials' = Append(credentials,
                             [client_id |-> uuid_count + 1, username |-> username,
                              password_hash |-> HashPassword(password),
                              enabled |-> TRUE])
    /\ uuid_count' = uuid_count + 1
    /\ UNCHANGED <<protoVars, tools, execVars, tokens, audit_entries, issued,
                   clockVars, ioVars, handler_runs>>
    /\ UNCHANGED <<permVars, wireVars, modVars>>

\* PermissionManager.initialize_client called by the embedding application
InitializeClientCall(client_id, initial_permissions) ==
    /\ client_permissions' =
           InitializeClient(client_permissions, client_id, initial_permissions)
    /\ perm_audit' = Append(perm_audit,
                            PermAuditEntry("client_initialized", client_id,
                                           initial_permissions))
    /\ UNCHANGED <<protoVars, uuid_count, tools, sandboxes, execution_log,
                   authVars, clockVars, ioVars, handler_runs>>
    /\ UNCHANGED <<last_check, wireVars, modVars>>

\* PermissionManager.grant_permission: a client without a permission list is
\* first given the default one; a permission already in the list is skipped
GrantPermission(client_id, permission) ==
    LET known == client_id \in DOMAIN client_permissions
        perms == IF known THEN client_permissions
                 ELSE InitializeClient(client_permissions, client_id,
                                       DEFAULT_PERMISSIONS)
        trail == IF known THEN perm_audit
                 ELSE Append(perm_audit,
                             PermAuditEntry("client_initialized", client_id,
                                            DEFAULT_PERMISSIONS))
        present == \E i \in 1..Len(perms[client_id]) :
                       perms[client_id][i] = permission
    IN /\ client_permissions' =
              IF present THEN perms
              ELSE [perms EXCEPT ![client_id] = Append(@, permission)]
       /\ perm_audit' =
              IF present THEN trail
              ELSE Append(trail, PermAuditEntry("permission_granted", client_id,
                                                <<permission>>))
       /\ UNCHANGED <<protoVars, uuid_count, tools, sandboxes, execution_log,
                      authVars, clockVars, ioVars, handler_runs>>
       /\ UNCHANGED <<last_check, wireVars, modVars>>

\* PermissionManager.revoke_permission: returns at once for a client without
\* a permission list; logs only when it removed something
RevokePermission(client_id, permission_type) ==
    /\ IF client_id \notin DOMAIN client_permissions
       THEN UNCHANGED <<client_permissions, perm_audit>>
       ELSE LET kept == SelectSeq(client_permissions[client_id],
                                  LAMBDA q : q.type # permission_type)
                removed == SelectSeq(client_permissions[client_id],
                                     LAMBDA q : q.type = permission_type)
            IN /\ client_permissions' =
                      [client_permissions EXCEPT ![client_id] = kept]
               /\ perm_audit' =
                      IF removed = << >> THEN perm_audit
                      ELSE Append(perm_audit,
                                  PermAuditEntry("permissions_revoked",
                                                 client_id, removed))
    /\ UNCHANGED <<protoVars, uuid_count, tools, sandboxes, execution_log,
                   authVars, clockVars, ioVars, handler_runs>>
    /\ UNCHANGED <<last_check, wireVars, modVars>>

\* PermissionManager.check_permission: has_permission, and on False a
\* permission_denied audit entry and PermissionDeniedError
CheckPermission(client_id, required) ==
    LET allowed == HasPermission(client_permissions, client_id, required)
    IN /\ last_check' = [client_id |-> client_id, required |-> required,
                         allowed |-> allowed, raised |-> ~allowed]
       /\ perm_audit' =
              IF allowed THEN perm_audit
              ELSE Append(perm_audit,
                          PermAuditEntry("permission_denied", client_id,
                                         <<required>>))
       /\ UNCHANGED <<protoVars, uuid_count, tools, client_permissions,
                      sandboxes, execution_log, authVars, clockVars, ioVars,
                      handler_runs>>
       /\ UNCHANGED <<perm_revoked, wireVars, modVars>>

\* TokenManager.cleanup_expired, when it removes something
Cleanup ==
    /\ CleanupExpired(tokens, now) # tokens
    /\ tokens' = CleanupExpired(tokens, now)
    /\ UNCHANGED <<protoVars, uuid_count, tools, execVars, credentials,
                   audit_entries, issued, clockVars, ioVars, handler_runs>>
    /\ UNCHANGED <<permVars, wireVars, modVars>>

\* time passes: by the lifetime of an access token or of a refresh token
Advance(minutes) ==
    /\ clock_steps < MaxClockSteps
    /\ now' = now + minutes
    /\ clock_steps' = clock_steps + 1
    /\ UNCHANGED <<protoVars, uuid_count, tools, execVars, authVars, ioVars,
                   handler_runs>>
    /\ UNCHANGED <<permVars, wireVars, modVars>>

----------------------------------------------------------------------------
(* Subprocess executor (SubprocessExecutor.execute).  The worker is a      *)
(* process of its own; the parent waits for its output under a timeout.    *)

SIGTERM == "SIGTERM"
SIGKILL == "SIGKILL"

\* the timeouts a call is made with, in seconds
ProcTimeouts == {1, 2}

NoWorker == [state |-> "none", handles_term |-> FALSE, timeout |-> 0]

\* asyncio.create_subprocess_exec: a worker that dies of SIGTERM, or one
\* whose code handles SIGTERM and goes on
SpawnWorker(handles_term, timeout) ==
    [state |-> "running", handles_term |-> handles_term, timeout |-> timeout]

\* what SIGTERM does to the worker during the grace period
AfterTerm(w) == IF w.handles_term THEN w ELSE [w EXCEPT !.state = "exited"]

\* after the grace period nothing more is sent
AfterGraceNeverKills(signals, w) == signals

\* after the grace period: SIGKILL when process.returncode is None
AfterGrace(signals, w) ==
    IF w.state = "running" THEN Append(signals, SIGKILL) ELSE signals

\* the entry of a call that ended
ProcEntry(result, signals, w, elapsed) ==
    [result |-> result, signals |-> signals, running |-> w.state = "running",
     handles_term |-> w.handles_term, timeout |-> w.timeout, elapsed |-> elapsed]

ProcUnchanged == UNCHANGED <<coreVars, credVars, tcpVars, stdioVars, checkVars>>

\* execute up to the await of communicate under wait_for
ExecuteBegins(handles_term, timeout) ==
    /\ proc_pc = "idle"
    /\ proc_calls < MaxProcCalls
    /\ proc_calls' = proc_calls + 1
    /\ proc_pc' = "communicate"
    /\ worker' = SpawnWorker(handles_term, timeout)
    /\ proc_clock' = 0
    /\ proc_signals' = << >>
    /\ UNCHANGED proc_log
    /\ ProcUnchanged

\* a second passes while the worker runs
WorkerRuns ==
    /\ proc_pc = "communicate"
    /\ worker.state = "running"
    /\ proc_clock < worker.timeout
    /\ proc_clock' = proc_clock + 1
    /\ UNCHANGED <<proc_pc, worker, proc_signals, proc_log, proc_calls>>
    /\ ProcUnchanged

\* the worker writes its result or its error and exits; communicate returns
\* and execute returns the parsed result
WorkerFinishes(result) ==
    /\ proc_pc = "communicate"
    /\ worker.state = "running"
    /\ worker' = [worker EXCEPT !.state = "exited"]
    /\ proc_log' = Append(proc_log,
                          ProcEntry(result, proc_signals, worker', proc_clock))
    /\ proc_pc' = "idle"
    /\ UNCHANGED <<proc_clock, proc_signals, proc_calls>>
    /\ ProcUnchanged

\* asyncio.TimeoutError: SIGTERM to the process group, then sleep(kill_timeout)
ExecuteTimesOut ==
    /\ proc_pc = "communicate"
    /\ worker.state = "running"
    /\ proc_clock >= worker.timeout
    /\ proc_signals' = Append(proc_signals, SIGTERM)
    /\ worker' = AfterTerm(worker)
    /\ proc_pc' = "grace"
    /\ UNCHANGED <<proc_clock, proc_log, proc_calls>>
    /\ ProcUnchanged

\* the grace period is over: SIGKILL if the worker is still there, wait for
\* it, return the timeout result
GraceEnds ==
    /\ proc_pc = "grace"
    /\ proc_signals' = AfterGrace(proc_signals, worker)
    /\ worker' = IF \E i \in 1..Len(proc_signals') : proc_signals'[i] = SIGKILL
                 THEN [worker EXCEPT !.state = "exited"] ELSE worker
    /\ proc_log' = Append(proc_log,
                          ProcEntry("timeout", proc_signals', worker', proc_clock))
    /\ proc_pc' = "idle"
    /\ UNCHANGED <<proc_clock, proc_calls>>
    /\ ProcUnchanged

\* the caller's wait_for cancels execute at its await (communicate or the
\* sleep of the grace period): CancelledError passes both except clauses,
\* only the finally clause that unlinks the wrapper file runs
ExecuteCancelled ==
    /\ proc_pc \in {"communicate", "grace"}
    /\ proc_log' = Append(proc_log,
                          ProcEntry("cancelled", proc_signals, worker, proc_clock))
    /\ proc_pc' = "idle"
    /\ UNCHANGED <<worker, proc_clock, proc_signals, proc_calls>>
    /\ ProcUnchanged

----------------------------------------------------------------------------
(* TCP transport.  asyncio creates one task per accepted connection to run *)
(* _handle_client; the task runs at a later turn of the event loop.  A     *)
(* frame is a well-formed request or a length prefix above                 *)
(* max_message_size.                                                       *)

\* the attributes a TCPTransport has: those its constructor and the base
\* constructor assign, and the methods of the two classes
TransportAttributes ==
    {"name", "is_running", "is_connected", "logger", "_message_handler",
     "_error_handler", "config", "server", "clients", "_dispatch_message",
     "_dispatch_error", "_handle_client", "send_message", "send_error"}

TcpFrames == {"request", "oversize"}

TcpUnchanged == UNCHANGED <<coreVars, credVars, procVars, stdioVars, checkVars>>

\* start up to serve_forever: the server listens
TcpStart ==
    /\ ~tcp_running
    /\ tcp_stop = "none"
    /\ tcp_running' = TRUE
    /\ UNCHANGED <<tcp_clients, tcp_handler, tcp_sent, tcp_dispatched, tcp_stop,
                   tcp_closing>>
    /\ TcpUnchanged

\* a peer connects: the listening server accepts and creates the handler task
PeerConnects(p) ==
    /\ tcp_running
    /\ tcp_stop = "none"
    /\ tcp_handler[p] = "none"
    /\ tcp_handler' = [tcp_handler EXCEPT ![p] = "created"]
    /\ UNCHANGED <<tcp_running, tcp_clients, tcp_sent, tcp_dispatched, tcp_stop,
                   tcp_closing>>
    /\ TcpUnchanged

\* a connected peer writes a frame
PeerSends(p, frame) ==
    /\ tcp_handler[p] = "created"
    /\ Len(tcp_sent[p]) < MaxTcpFrames
    /\ tcp_sent' = [tcp_sent EXCEPT ![p] = Append(@, frame)]
    /\ UNCHANGED <<tcp_running, tcp_clients, tcp_handler, tcp_dispatched, tcp_stop,
                   tcp_closing>>
    /\ TcpUnchanged

\* _handle_client from its first statement to its first await: it registers
\* the connection and reads self._client_handler; without that attribute
\* the AttributeError is caught by the outer except and the finally clause
\* awaits connection.close()
HandlerStarts(p) ==
    /\ tcp_handler[p] = "created"
    /\ tcp_clients' = tcp_clients \cup {p}
    /\ tcp_handler' = [tcp_handler EXCEPT ![p] =
                           IF "_client_handler" \in TransportAttributes
                           THEN "reading" ELSE "closing"]
    /\ UNCHANGED <<tcp_running, tcp_sent, tcp_dispatched, tcp_stop, tcp_closing>>
    /\ TcpUnchanged

\* the close awaited in the finally clause completes: del self.clients[..]
\* (a KeyError when stop has cleared the registry) and the task ends
HandlerEnds(p) ==
    /\ tcp_handler[p] = "closing"
    /\ tcp_clients' = tcp_clients \ {p}
    /\ tcp_handler' = [tcp_handler EXCEPT ![p] = "ended"]
    /\ UNCHANGED <<tcp_running, tcp_sent, tcp_dispatched, tcp_stop, tcp_closing>>
    /\ TcpUnchanged

\* stop up to its first suspension: the server stops listening
\* (wait_closed returns at once); with no registered connection stop runs
\* to its end, otherwise it awaits the close of the first one
TcpStopBegins ==
    /\ tcp_running
    /\ tcp_stop = "none"
    /\ IF tcp_clients = {}
       THEN /\ tcp_stop' = "returned"
            /\ tcp_running' = FALSE
            /\ UNCHANGED tcp_closing
       ELSE /\ tcp_stop' = "closing"
            /\ tcp_closing' = tcp_clients
            /\ UNCHANGED tcp_running
    /\ UNCHANGED <<tcp_clients, tcp_handler, tcp_sent, tcp_dispatched>>
    /\ TcpUnchanged

\* the close stop awaits completes; after the last one stop clears the
\* registry and returns
TcpStopCloses(p) ==
    /\ tcp_stop = "closing"
    /\ p \in tcp_closing
    /\ tcp_closing' = tcp_closing \ {p}
    /\ IF tcp_closing = {p}
       THEN /\ tcp_clients' = {}
            /\ tcp_running' = FALSE
            /\ tcp_stop' = "returned"
       ELSE UNCHANGED <<tcp_clients, tcp_running, tcp_stop>>
    /\ UNCHANGED <<tcp_handler, tcp_sent, tcp_dispatched>>
    /\ TcpUnchanged

----------------------------------------------------------------------------
(* The life of the stdio transport: start creates the read task and the    *)
(* write task; the peer writes lines to standard input and closes it.  A   *)
(* line is a request, which the server answers with one reply, or blank.   *)

StdinLines == {"request", "blank"}

StdioUnchanged == UNCHANGED <<coreVars, credVars, procVars, tcpVars, checkVars>>

StdioStart ==
    /\ ~st_running
    /\ read_task = "none"
    /\ st_running' = TRUE
    /\ read_task' = "running"
    /\ write_task' = "running"
    /\ UNCHANGED <<stdin, stdin_eof, stdin_count, st_queue, st_out>>
    /\ StdioUnchanged

\* the peer writes a line
StdinWrites(line) ==
    /\ ~stdin_eof
    /\ stdin_count < MaxStdinLines
    /\ stdin' = Append(stdin, line)
    /\ stdin_count' = stdin_count + 1
    /\ UNCHANGED <<st_running, read_task, write_task, stdin_eof, st_queue, st_out>>
    /\ StdioUnchanged

\* the peer closes standard input
StdinCloses ==
    /\ ~stdin_eof
    /\ stdin_eof' = TRUE
    /\ UNCHANGED <<st_running, read_task, write_task, stdin, stdin_count, st_queue,
                   st_out>>
    /\ StdioUnchanged

\* one turn of the read loop: _read_line returns the next line stripped of
\* its line end, or None at end of file; `if not line: break` leaves the
\* loop on None and on the empty string; any other line is dispatched and
\* the server queues its reply
ReadLoopReads ==
    /\ read_task = "running"
    /\ st_running
    /\ stdin # << >> \/ stdin_eof
    /\ IF stdin # << >> /\ Head(stdin) = "request"
       THEN /\ stdin' = Tail(stdin)
            /\ st_queue' = st_queue + 1
            /\ UNCHANGED read_task
       ELSE /\ read_task' = "ended"
            /\ stdin' = IF stdin = << >> THEN stdin ELSE Tail(stdin)
            /\ UNCHANGED st_queue
    /\ UNCHANGED <<st_running, write_task, stdin_eof, stdin_count, st_out>>
    /\ StdioUnchanged

\* one turn of the write loop with an item in the queue; with an empty
\* queue the wait times out after a second and the loop tests is_running
\* again
WriteLoopWrites ==
    /\ write_task = "running"
    /\ st_running
    /\ st_queue > 0
    /\ st_queue' = st_queue - 1
    /\ st_out' = st_out + 1
    /\ UNCHANGED <<st_running, read_task, write_task, stdin, stdin_eof, stdin_count>>
    /\ StdioUnchanged

\* stop: clears is_running, cancels and awaits the read task, then the
\* write task
StdioStop ==
    /\ st_running
    /\ st_running' = FALSE
    /\ read_task' = IF read_task = "running" THEN "cancelled" ELSE read_task
    /\ write_task' = IF write_task = "running" THEN "cancelled" ELSE write_task
    /\ UNCHANGED <<stdin, stdin_eof, stdin_count, st_queue, st_out>>
    /\ StdioUnchanged

----------------------------------------------------------------------------
(* Initial state: the server after construction and tool registration *)

NoResponse == ErrorResponse(Message("", << >>, NoId), 0)
NoCheck == [client_id |-> NoId, required |-> Permission("", NoResource),
            allowed |-> FALSE, raised |-> FALSE]

Init ==
    /\ clients = << >>
    /\ total_requests = 0
    /\ client_states = << >>
    /\ uuid_count = 0
    /\ tools = ToolNames
    /\ client_permissions = << >>
    /\ perm_audit = << >>
    /\ sandboxes = << >>
    /\ execution_log = << >>
    /\ credentials = << >>
    /\ tokens = << >>
    /\ audit_entries = << >>
    /\ now = 0
    /\ clock_steps = 0
    /\ issued = {}
    /\ pc = [p \in Peers |-> "idle"]
    /\ call = [p \in Peers |-> NoCall]
    /\ response = [p \in Peers |-> NoResponse]
    /\ wire = << >>
    /\ handler_runs = {}
    /\ last_check = NoCheck
    /\ perm_revoked = {}
    /\ perm_ops = 0
    /\ write_queue = << >>
    /\ stdout = << >>
    /\ client_usage = << >>
    /\ allocated = {}
    /\ usage_base = << >>
    /\ quota_ops = 0
    /\ files = [path \in {FilePath, TempPath(FilePath)} |-> NoFile]
    /\ store_pc = "new"
    /\ store_data = DefaultData
    /\ store_committed = DefaultData
    /\ store_ops = 0
    /\ iso_dirs = {}
    /\ iso_last = NoIsoCall
    /\ iso_calls = 0
    /\ handler_clock = << >>
    /\ cred_disabled = {}
    /\ last_auth = NoAuth
    /\ cred_ops = 0
    /\ proc_pc = "idle"
    /\ worker = NoWorker
    /\ proc_clock = 0
    /\ proc_signals = << >>
    /\ proc_log = << >>
    /\ proc_calls = 0
    /\ tcp_running = FALSE
    /\ tcp_clients = {}
    /\ tcp_handler = [p \in Peers |-> "none"]
    /\ tcp_sent = [p \in Peers |-> << >>]
    /\ tcp_dispatched = << >>
    /\ tcp_stop = "none"
    /\ tcp_closing = {}
    /\ st_running = FALSE
    /\ read_task = "none"
    /\ write_task = "none"
    /\ stdin = << >>
    /\ stdin_eof = FALSE
    /\ stdin_count = 0
    /\ st_queue = 0
    /\ st_out = 0
    /\ checked = {}

----------------------------------------------------------------------------
(* The frames peers send.  A peer numbers its requests; a notification     *)
(* carries no id.                                                          *)

NextId == total_requests + 1
NoParams == << >>

Receive(p, msg, bound) ==
    /\ total_requests < bound
    /\ HandleTransportMessage(p, msg)

SendInitialize(p, bound) ==
    Receive(p, Message(METHOD_INITIALIZE, NoParams, NextId), bound)

SendShutdown(p, bound) ==
    Receive(p, Message(METHOD_SHUTDOWN, NoParams, NextId), bound)

\* a method the server registers no handler for
SendUnknownMethod(p, bound) ==
    Receive(p, Message("resources/list", NoParams, NextId), bound)

SendToolsList(p, ids, bound) ==
    \E id \in ids : Receive(p, Message("tools/list", NoParams, id), bound)

SendToolsCall(p, names, bound) ==
    \E name \in names : \E arguments \in ArgumentSets(name) :
        Receive(p, Message("tools/call",
                           [name |-> name, arguments |-> arguments], NextId),
                bound)

SendAuthToken(p, usernames, passwords, bound) ==
    \E username \in usernames : \E password \in passwords :
        Receive(p, Message("auth/token",
                           [username |-> username, password |-> password], NextId),
                bound)

\* auth/refresh without a refresh_token parameter
SendAuthRefreshEmpty(p, bound) ==
    Receive(p, Message("auth/refresh",
                       [refresh_token |-> ForgedToken, has_token |-> FALSE],
                       NextId),
            bound)

SendAuthRefresh(p, bound) ==
    \E token \in issued \cup {ForgedToken} :
        Receive(p, Message("auth/refresh",
                           [refresh_token |-> token, has_token |-> TRUE], NextId),
                bound)

SendAuthRevoke(p, jtis, bound) ==
    \E jti \in jtis :
        Receive(p, Message("auth/revoke", [jti |-> jti], NextId), bound)

----------------------------------------------------------------------------
(* Spec: the whole method table, every method with few parameter choices *)

ProtoInitialize(p) == SendInitialize(p, MaxProtoRequests)
ProtoShutdown(p) == SendShutdown(p, MaxProtoRequests)
ProtoUnknownMethod(p) == SendUnknownMethod(p, MaxProtoRequests)
ProtoToolsList(p) == SendToolsList(p, {NextId, NoId}, MaxProtoRequests)
ProtoToolsCall(p) == SendToolsCall(p, {"nosuch", "read_data"}, MaxProtoRequests)
ProtoCreateClient == CreateClient("alice", "secret")
ProtoAuthToken(p) == SendAuthToken(p, {"alice"}, {"secret"}, MaxProtoRequests)
ProtoAuthRefresh(p) == SendAuthRefreshEmpty(p, MaxProtoRequests)
ProtoAuthRevoke(p) == SendAuthRevoke(p, {""}, MaxProtoRequests)

Next ==
    \/ \E p \in Peers : ProtoInitialize(p)
    \/ \E p \in Peers : ProtoShutdown(p)
    \/ \E p \in Peers : ProtoUnknownMethod(p)
    \/ \E p \in Peers : ProtoToolsList(p)
    \/ \E p \in Peers : ProtoToolsCall(p)
    \/ \E p \in Peers : ProtoAuthToken(p)
    \/ \E p \in Peers : ProtoAuthRefresh(p)
    \/ \E p \in Peers : ProtoAuthRevoke(p)
    \/ \E p \in Peers : ToolReturns(p)
    \/ \E p \in Peers : Send(p)
    \/ ProtoCreateClient

Spec == Init /\ [][Next]_vars

----------------------------------------------------------------------------
(* SpecAuth: the token life cycle.  Credentials are created, token pairs   *)
(* are issued, refreshed and revoked, tokens are validated, time passes.   *)

AuthInitialize(p) == SendInitialize(p, MaxAuthRequests)
AuthCreateClient == CreateClient("alice", "secret")
AuthToken(p) == SendAuthToken(p, Usernames, Passwords, MaxAuthRequests)
AuthRefresh(p) == SendAuthRefresh(p, MaxAuthRequests)
AuthRevoke(p) ==
    SendAuthRevoke(p, {RegistryJti(ForgedToken), "unknown"}
                          \cup {JtiClaim(token) : token \in issued},
                   MaxAuthRequests)
AuthAdvance == \E minutes \in {AccessTokenExpire, RefreshTokenExpire} : Advance(minutes)

\* the peer that runs the token life cycle
AuthPeers == {"p1"}

AuthNext ==
    \/ \E p \in AuthPeers : AuthInitialize(p)
    \/ \E p \in AuthPeers : AuthToken(p)
    \/ \E p \in AuthPeers : AuthRefresh(p)
    \/ \E p \in AuthPeers : AuthRevoke(p)
    \/ \E p \in AuthPeers : Send(p)
    \/ AuthCreateClient
    \/ AuthAdvance
    \/ Cleanup

SpecAuth == Init /\ [][AuthNext]_vars

----------------------------------------------------------------------------
(* SpecExec: tool calls.  Peers call the registered tools, the handlers    *)
(* return, raise or time out, the application grants and revokes.          *)

ExecInitialize(p) == SendInitialize(p, MaxExecRequests)
ExecToolsCall(p) == SendToolsCall(p, ToolNames, MaxExecRequests)
ExecGrant == \E client_id \in DOMAIN client_permissions :
                /\ GrantPermission(client_id, WriteAny)
                /\ UNCHANGED <<perm_revoked, perm_ops>>
ExecRevoke == \E client_id \in DOMAIN client_permissions :
                 /\ RevokePermission(client_id, "FILE_READ")
                 /\ UNCHANGED <<perm_revoked, perm_ops>>

ExecNext ==
    \/ \E p \in Peers : ExecInitialize(p)
    \/ \E p \in Peers : ExecToolsCall(p)
    \/ \E p \in Peers : ToolReturns(p)
    \/ \E p \in Peers : ToolRaises(p)
    \/ \E p \in Peers : ToolTimesOut(p)
    \/ \E p \in Peers : Send(p)
    \/ ExecGrant
    \/ ExecRevoke

SpecExec == Init /\ [][ExecNext]_vars

----------------------------------------------------------------------------
(* The authorization engine driven directly by the embedding application:  *)
(* initialize, grant, revoke and check in any order, for clients that may  *)
(* never have been initialized.                                            *)

PermClients == {1, 2}
PermTypes == {"FILE_READ", "FILE_WRITE", "SYSTEM_COMMAND"}
InitialLists == {DEFAULT_PERMISSIONS, << >>, <<WriteAny>>}
GrantChoices == {ReadInput, WriteAny, COMMAND_LS}
RequiredChoices ==
    {ReadInput, Permission("FILE_READ", <<"/", "etc">>),
     Permission("FILE_READ", NoResource),
     WriteAny, Permission("FILE_WRITE", <<"/", "tmp">>),
     COMMAND_LS, Permission("SYSTEM_COMMAND", <<"rm">>)}

PermInitialize(client_id, initial_permissions) ==
    /\ perm_ops < MaxPermOps
    /\ InitializeClientCall(client_id, initial_permissions)
    /\ perm_revoked' = { e \in perm_revoked : e[1] # client_id }
    /\ perm_ops' = perm_ops + 1

PermGrant(client_id, permission) ==
    /\ perm_ops < MaxPermOps
    /\ GrantPermission(client_id, permission)
    /\ perm_revoked' = perm_revoked \ {<<client_id, permission.type>>}
    /\ perm_ops' = perm_ops + 1

PermRevoke(client_id, permission_type) ==
    /\ perm_ops < MaxPermOps
    /\ RevokePermission(client_id, permission_type)
    /\ perm_revoked' = perm_revoked \cup {<<client_id, permission_type>>}
    /\ perm_ops' = perm_ops + 1

PermCheck(client_id, required) ==
    /\ perm_ops < MaxPermOps
    /\ CheckPermission(client_id, required)
    /\ perm_ops' = perm_ops + 1

PermNext ==
    \/ \E c \in PermClients, l \in InitialLists : PermInitialize(c, l)
    \/ \E c \in PermClients, g \in GrantChoices : PermGrant(c, g)
    \/ \E c \in PermClients, t \in PermTypes : PermRevoke(c, t)
    \/ \E c \in PermClients, r \in RequiredChoices : PermCheck(c, r)

SpecPerm == Init /\ [][PermNext]_vars

----------------------------------------------------------------------------
(* The reply path of the stdio transport: frames are read and dispatched   *)
(* one after the other, replies go through the write queue to stdout.      *)

WireInitialize(p) == SendInitialize(p, MaxWireRequests)
WireToolsList(p) == SendToolsList(p, {NextId, NoId}, MaxWireRequests)
WireToolsCall(p) == SendToolsCall(p, {"calc"}, MaxWireRequests)

WireNext ==
    \/ \E p \in Peers : WireInitialize(p)
    \/ \E p \in Peers : WireToolsList(p)
    \/ \E p \in Peers : WireToolsCall(p)
    \/ \E p \in Peers : ToolReturns(p)
    \/ \E p \in Peers : Send(p)
    \/ WriteLine

SpecWire == Init /\ [][WireNext]_vars

----------------------------------------------------------------------------
(* The quota tracker driven directly: allocations and releases in any      *)
(* order, releases without a matching allocation and without `used` too.   *)

QuotaClients == {1, 2}
Pids == {101, 102}
MemoryChoices == {0, 128, 256}

QuotaAllocate(client_id, pid, memory_mb) ==
    /\ quota_ops < MaxQuotaOps
    \* a process id names one running process
    /\ \A a \in allocated : a.open => a.pid # pid
    /\ Allocate(client_id, pid, ResourceRequirement(memory_mb))
    /\ quota_ops' = quota_ops + 1

QuotaRelease(client_id, pid, used) ==
    /\ quota_ops < MaxQuotaOps
    /\ Release(client_id, pid, used)
    /\ quota_ops' = quota_ops + 1

QuotaNext ==
    \/ \E c \in QuotaClients, pid \in Pids, mb \in MemoryChoices :
           QuotaAllocate(c, pid, mb)
    \/ \E c \in QuotaClients, pid \in Pids, mb \in MemoryChoices :
           QuotaRelease(c, pid, ResourceRequirement(mb))
    \/ \E c \in QuotaClients, pid \in Pids : QuotaRelease(c, pid, NoRequirement)

SpecQuota == Init /\ [][QuotaNext]_vars

----------------------------------------------------------------------------
(* One store file written by one process that may die at any step and be   *)
(* started again.                                                          *)

StoreNext ==
    \/ StoreConstruct
    \/ \E data \in StoreData : store_ops < MaxStoreOps /\ StoreSave(data)
    \/ StoreWrite
    \/ StoreWriteFails
    \/ StoreReplace
    \/ StoreChmod
    \/ StoreCrash

SpecStore == Init /\ [][StoreNext]_vars

----------------------------------------------------------------------------
(* The isolation manager called with paths of every shape, under an        *)
(* absolute base directory and under the default relative one.             *)

IsoClients == {"alice", "bob"}
BaseDirs == {PathOf(TRUE, <<"srv">>), PathOf(FALSE, <<"data">>)}
PathNames == {"f", ".", "..", "x..y", "bob"}
PathStrings ==
    {PathOf(absolute, parts) :
        absolute \in BOOLEAN,
        parts \in {<< >>} \cup { <<n>> : n \in PathNames }
                  \cup { <<n, k>> : n \in PathNames, k \in PathNames }}
\* a path string spelled from a base directory, as a caller of
\* validate_access builds it
Spelled(base_dir) ==
    {Join(Resolve(base_dir), PathOf(FALSE, <<c>> \o tail)) :
        c \in IsoClients,
        tail \in { <<n>> : n \in PathNames }
                 \cup { <<"..", d, "f">> : d \in IsoClients }}

IsoResolve(base_dir, client_id, relative_path) ==
    /\ iso_calls < MaxIsoCalls
    /\ ResolvePath(base_dir, client_id, relative_path)
    /\ iso_calls' = iso_calls + 1

IsoValidate(base_dir, client_id, target_path, cross) ==
    /\ iso_calls < MaxIsoCalls
    /\ ValidateAccess(base_dir, client_id, target_path, cross)
    /\ iso_calls' = iso_calls + 1

IsoNext ==
    \/ \E b \in BaseDirs, c \in IsoClients, s \in PathStrings :
           IsoResolve(b, c, s)
    \/ \E b \in BaseDirs, c \in IsoClients, x \in BOOLEAN :
       \E s \in PathStrings \cup Spelled(b) :
           IsoValidate(b, c, s, x)

SpecIso == Init /\ [][IsoNext]_vars

----------------------------------------------------------------------------
(* Tool calls of one peer with the handler's progress in time: the tool   *)
(* copy_file has a timeout of one second, the others of thirty.           *)

TimedInitialize(p) == SendInitialize(p, MaxTimedRequests)
TimedToolsCall(p) == SendToolsCall(p, {"calc", "copy_file"}, MaxTimedRequests)
TimedGrant == \E client_id \in DOMAIN client_permissions :
                 /\ \A i \in 1..Len(client_permissions[client_id]) :
                        client_permissions[client_id][i] # WriteAny
                 /\ GrantPermission(client_id, WriteAny)
                 /\ UNCHANGED <<perm_revoked, perm_ops>>

TimedNext ==
    \/ \E p \in AuthPeers : TimedInitialize(p)
    \/ \E p \in AuthPeers : TimedToolsCall(p)
    \/ TimedGrant
    \/ \E p \in AuthPeers : HandlerWorks(p)
    \/ \E p \in AuthPeers : HandlerAwaits(p)
    \/ \E p \in AuthPeers : HandlerWaits(p)
    \/ \E p \in AuthPeers : HandlerResumes(p)
    \/ \E p \in AuthPeers : TimerFires(p)
    \/ \E p \in AuthPeers : HandlerReturns(p)
    \/ \E p \in AuthPeers : HandlerRaises(p)
    \/ \E p \in AuthPeers : Send(p)

SpecTimed == Init /\ [][TimedNext]_vars

----------------------------------------------------------------------------
(* Properties of the protocol state machine and of the server assembly     *)

\* the protocol state the server holds for the frames of any peer
Initialized ==
    /\ DefaultClientKey \in DOMAIN clients
    /\ clients[DefaultClientKey].client_id \in DOMAIN client_states
    /\ client_states[clients[DefaultClientKey].client_id]

\* this step handles a frame of peer p and leaves a response for it
Handled(p) ==
    /\ total_requests' = total_requests + 1
    /\ pc[p] = "idle"
    /\ pc'[p] = "reply"

\* C1: while the protocol state is fresh, a request with any method other
\* than initialize (shutdown included) is answered with the error -32600,
\* starts no handler and leaves the state fresh.
C1_FreshRejectsAllButInitialize ==
    [][\A p \in Peers :
          (Handled(p) /\ ~Initialized /\ response'[p].method # METHOD_INITIALIZE)
              => /\ response'[p].kind = "error"
                 /\ response'[p].code = INVALID_REQUEST
                 /\ handler_runs' = handler_runs
                 /\ ~Initialized']_vars

\* the replies to peer q's own initialize and shutdown requests
OwnLifecycle(q) ==
    { i \in 1..Len(wire) :
        /\ wire[i].peer = q
        /\ wire[i].reply.method \in {METHOD_INITIALIZE, METHOD_SHUTDOWN} }

\* the last lifecycle request peer q itself sent was initialize
PeerReady(q) ==
    /\ OwnLifecycle(q) # {}
    /\ LET last == CHOOSE i \in OwnLifecycle(q) : \A j \in OwnLifecycle(q) : j <= i
       IN wire[last].reply.method = METHOD_INITIALIZE

\* C2: every peer has its own protocol state: a peer's request for a method
\* other than initialize and shutdown is rejected with -32600 exactly when
\* that peer itself has not sent initialize, or has sent shutdown since,
\* whatever the other peers have sent.
C2_PeersHaveOwnState ==
    \A q \in Peers :
        (pc[q] = "reply"
            /\ response[q].method \notin {METHOD_INITIALIZE, METHOD_SHUTDOWN})
        => (response[q].code = INVALID_REQUEST <=> ~PeerReady(q))

\* C3: no tool handler is started for a tools/call of a client that has not
\* completed a successful auth/token before.
C3_ToolRunsOnlyAuthenticated ==
    \A run \in handler_runs : run.kind = "tool" => run.authenticated

\* this step leaves an error response for peer p
ErrorReplied(p) ==
    /\ pc[p] # "reply"
    /\ pc'[p] = "reply"
    /\ response'[p].kind = "error"

\* this step appends an entry to one of the audit records
AuditAppended ==
    \/ Len(audit_entries') > Len(audit_entries)
    \/ Len(execution_log') > Len(execution_log)
    \/ Len(perm_audit') > Len(perm_audit)

\* C10: no error path skips the audit append: every step that ends a
\* request with an error response, in the protocol state machine, in an
\* auth method, in the tool lookup or in the orchestrator, appends an audit
\* entry.
C10_EveryErrorIsAudited ==
    [][\A p \in Peers : ErrorReplied(p) => AuditAppended]_vars

----------------------------------------------------------------------------
(* Properties of the token life cycle                                      *)

\* the jtis that auth/revoke has revoked successfully
RevokedJtis ==
    { audit_entries[i].details :
        i \in { k \in 1..Len(audit_entries) :
                  audit_entries[k].event_type = "auth_token_revoked" } }

TokenTypes == {"access", "refresh"}

\* C4: once revoke(jti) has succeeded, the validation of any token whose
\* registry row carries that jti fails with "revoked".
C4_RevokedJtiNeverValidates ==
    \A token \in issued : \A token_type \in TokenTypes :
        (\E i \in HashRows(tokens, token, token_type) :
            tokens[i].jti \in RevokedJtis)
        => ValidateToken(tokens, token, token_type) = "revoked"

RefreshFrame(token) ==
    Message("auth/refresh", [refresh_token |-> token, has_token |-> TRUE], NextId)

\* the refresh tokens of pairs whose registry row carries a revoked jti
RevokedRefreshTokens ==
    { token \in issued :
        \E i \in HashRows(tokens, token, "refresh") : tokens[i].jti \in RevokedJtis }

\* C5: after a revocation, auth/refresh called with the refresh token of the
\* revoked pair is answered with an error and hands out no new access token.
C5_RevokedPairCannotRefresh ==
    [][\A p \in Peers : \A token \in RevokedRefreshTokens :
          HandleTransportMessage(p, RefreshFrame(token))
              => (response'[p].kind = "error" /\ issued' = issued)]_vars

\* this step answers an auth/token request of peer p with a token pair
TokenIssued(p) ==
    /\ Handled(p)
    /\ response'[p].method = "auth/token"
    /\ response'[p].kind = "result"

\* C6: right after a successful auth/token the access token just issued is
\* accepted by the minter, and the registry finds a row for its hash that
\* is not revoked, whatever was issued or revoked before.
C6_IssuedTokenIsValid ==
    [][\A p \in Peers :
          TokenIssued(p)
              => \E token \in response'[p].tokens :
                    /\ token.token_type = "access"
                    /\ Verify(token, now') = "ok"
                    /\ ValidateToken(tokens', token, "access") = "valid"]_vars

\* a token pair has been issued after an earlier pair was revoked, and its
\* access token validates
C6_IssuedAfterRevocation ==
    \E p \in Peers :
        /\ pc[p] = "reply"
        /\ response[p].method = "auth/token"
        /\ response[p].kind = "result"
        /\ \E i \in 1..Len(tokens) : tokens[i].revoked
        /\ \E token \in response[p].tokens :
              /\ token.token_type = "access"
              /\ ValidateToken(tokens, token, "access") = "valid"

----------------------------------------------------------------------------
(* Properties of the execution orchestrator                                *)

\* this step starts the tool handler for a call of peer p
ToolStarted(p) == pc[p] = "idle" /\ pc'[p] = "running"

\* C7: execute validates, authorizes, acquires the sandbox and runs, in this
\* order: the tool handler is started, and the client's sandbox execution
\* counter incremented, only when the parameters passed validation and
\* every required permission of the tool was checked and found granted.
C7_RunOnlyAfterValidateAndAuthorize ==
    [][/\ \A p \in Peers :
            ToolStarted(p)
                => LET tool == GetTool(call'[p].tool)
                       cid == call'[p].client_id
                   IN /\ ValidateParams(call'[p].msg.params.arguments, tool)
                      /\ \A i \in 1..Len(tool.permissions) :
                            HasPermission(client_permissions', cid,
                                          tool.permissions[i])
                      /\ cid \in DOMAIN sandboxes'
                      /\ sandboxes'[cid] =
                            (IF cid \in DOMAIN sandboxes THEN sandboxes[cid] ELSE 0) + 1
       /\ sandboxes' # sandboxes => \E p \in Peers : ToolStarted(p)
       /\ (\E run \in handler_runs' \ handler_runs : run.kind = "tool")
              => \E p \in Peers : ToolStarted(p)]_vars

\* a tool that requires two permissions is running after the second one was
\* granted to the caller
C7_TwoPermissionToolRuns ==
    \E p \in Peers :
        /\ pc[p] = "running"
        /\ Len(GetTool(call[p].tool).permissions) = 2
        /\ sandboxes[call[p].client_id] >= 1

\* the audit entries of the execute call numbered n
EntriesOf(n) == { i \in 1..Len(execution_log) : execution_log[i].request = n }

\* the execute call numbered n has not ended: its tool handler is awaited
InFlight(n) == \E p \in Peers : pc[p] = "running" /\ call[p].request = n

ExitStatuses ==
    {"success", "validation_error", "permission_denied", "timeout", "error"}

\* C8: every execute call appends exactly one audit entry on each of its
\* exit paths (success, validation error, denied, timeout, runtime error);
\* the entry carries the caller's client id, the tool name and the status of
\* the exit path, and a call that returned without error has status success.
C8_OneAuditEntryPerCall ==
    /\ \A run \in handler_runs :
          run.kind = "execute"
          => IF InFlight(run.request) THEN EntriesOf(run.request) = {}
             ELSE /\ Cardinality(EntriesOf(run.request)) = 1
                  /\ \A i \in EntriesOf(run.request) :
                        /\ execution_log[i].client_id = run.client_id
                        /\ execution_log[i].tool_name = run.name
                        /\ execution_log[i].status \in ExitStatuses
                        /\ execution_log[i].status \in {"timeout", "error", "success"}
                              <=> \E other \in handler_runs :
                                     other.kind = "tool"
                                     /\ other.request = run.request
                        /\ \A p \in Peers :
                              (pc[p] = "reply" /\ response[p].id = run.request)
                              => (response[p].kind = "result"
                                    <=> execution_log[i].status = "success")
    /\ \A i \in 1..Len(execution_log) :
          \E run \in handler_runs :
              run.kind = "execute" /\ run.request = execution_log[i].request

\* one call has ended on the denied path and another on the timeout path,
\* each with its one entry
C8_SeveralExitPathsLogged ==
    \E i, k \in 1..Len(execution_log) :
        /\ execution_log[i].status = "permission_denied"
        /\ execution_log[k].status = "timeout"
        /\ EntriesOf(execution_log[i].request) = {i}
        /\ EntriesOf(execution_log[k].request) = {k}

\* the requests whose reply was returned by handle_message: waiting for the
\* transport or already handed to it
Replied ==
    { response[p].id : p \in { q \in Peers : pc[q] = "reply" } }
        \cup { wire[i].reply.id : i \in 1..Len(wire) }

\* C9: the audit entry of a request is appended before its reply is handed
\* back: every execute call whose reply exists has its entry in the
\* execution log, and a denied one also has the permission_denied entry of
\* the authorization engine's trail.
C9_AuditPrecedesReply ==
    \A run \in handler_runs :
        (run.kind = "execute" /\ run.request \in Replied)
        => /\ EntriesOf(run.request) # {}
           /\ (\A other \in handler_runs :
                  other.request = run.request => other.kind # "tool")
              => \/ \E i \in EntriesOf(run.request) :
                       execution_log[i].status = "validation_error"
                 \/ /\ \E i \in EntriesOf(run.request) :
                          execution_log[i].status = "permission_denied"
                    /\ \E k \in 1..Len(perm_audit) :
                          /\ perm_audit[k].event_type = "permission_denied"
                          /\ perm_audit[k].client_id = run.client_id

\* the reply to a denied call is on the wire
C9_DeniedReplySent ==
    \E i \in 1..Len(wire) : \E k \in EntriesOf(wire[i].reply.id) :
        /\ wire[i].reply.kind = "error"
        /\ execution_log[k].status = "permission_denied"

----------------------------------------------------------------------------
(* Properties of the authorization engine *)

\* some permission the client holds now matches `required`
HasGrantor(client_id, required) ==
    /\ client_id \in DOMAIN client_permissions
    /\ \E i \in 1..Len(client_permissions[client_id]) :
           LET granted == client_permissions[client_id][i]
           IN /\ granted.type = required.type
              /\ Matches(granted, required)

DenialLogged(client_id, required) ==
    /\ Len(perm_audit') = Len(perm_audit) + 1
    /\ perm_audit'[Len(perm_audit')].event_type = "permission_denied"
    /\ perm_audit'[Len(perm_audit')].client_id = client_id

\* C12: deny by default.  A check of `required` for a client is allowed only
\* if the client's current permission list holds a permission that matches
\* it; for a client that was never initialized, or that holds no matching
\* permission, the lookup is false and the check raises the denied error
\* (and records the denial).
C12_DenyByDefault ==
    [][\A c \in PermClients, r \in RequiredChoices :
          CheckPermission(c, r) =>
              /\ last_check'.allowed => HasGrantor(c, r)
              /\ ~HasGrantor(c, r) =>
                     /\ ~last_check'.allowed
                     /\ last_check'.raised
                     /\ DenialLogged(c, r)]_vars

\* a never-initialized client has been denied and another check was allowed
C12_UnknownDeniedKnownAllowed ==
    /\ last_check.allowed
    /\ \E i \in 1..Len(perm_audit) :
           /\ perm_audit[i].event_type = "permission_denied"
           /\ perm_audit[i].client_id \notin DOMAIN client_permissions

\* C13: after revoke(client, type) every required permission of that type
\* is refused to that client, and stays refused until a later grant of that
\* type to that client or an explicit initialize of that client.
C13_RevokedStaysDenied ==
    \A e \in perm_revoked : \A r \in RequiredChoices :
        r.type = e[2] => ~HasPermission(client_permissions, e[1], r)

----------------------------------------------------------------------------
(* Properties of the reply path *)

\* the reply ids of one peer, in the order they stand in a sequence of lines
RECURSIVE IdsOf(_, _)
IdsOf(lines, p) ==
    IF lines = << >> THEN << >>
    ELSE IF Head(lines).peer = p /\ Head(lines).id # NoId
         THEN <<Head(lines).id>> \o IdsOf(Tail(lines), p)
         ELSE IdsOf(Tail(lines), p)

QueuedLines == [i \in 1..Len(write_queue) |-> JsonLine(write_queue[i])]

Increasing(ids) == \A i, j \in 1..Len(ids) : i < j => ids[i] < ids[j]

\* the id of the frame of peer p that is being dispatched
InDispatch(p) ==
    IF pc[p] = "running" THEN call[p].msg.id
    ELSE IF pc[p] = "reply" THEN response[p].id
    ELSE NoId

\* C14: for each peer, the reply ids written to the wire stand in the order
\* of the request ids (the order the frames were read in), and while a frame
\* of the peer is being dispatched every reply of that peer already queued
\* or written answers an earlier frame.
C14_RepliesInRequestOrder ==
    \A p \in Peers :
        LET ids == IdsOf(stdout \o QueuedLines, p)
        IN /\ Increasing(IdsOf(stdout, p))
           /\ Increasing(ids)
           /\ \A i \in 1..Len(ids) : ids[i] <= total_requests
           /\ InDispatch(p) # NoId =>
                  \A i \in 1..Len(ids) : ids[i] < InDispatch(p)

\* a peer has two replies on stdout and a third frame in dispatch
C14_TwoRepliesWritten ==
    \E p \in Peers : Len(IdsOf(stdout, p)) >= 2 /\ pc[p] # "idle"

----------------------------------------------------------------------------
(* Properties of the quota tracker *)

RECURSIVE SumMemory(_)
SumMemory(allocations) ==
    IF allocations = {} THEN 0
    ELSE LET a == CHOOSE x \in allocations : TRUE
         IN a.required.memory_mb + SumMemory(allocations \ {a})

ClosedPairs(client_id) ==
    { a \in allocated : a.client_id = client_id /\ ~a.open }

\* C17: an allocate followed by a release with the identical requirement
\* leaves no trace in the client's usage: whatever the usage was beforehand
\* and whatever other such pairs are interleaved, memory and process count
\* are what they were before the pairs, plus the allocations still open.
C17_PairRestoresUsage ==
    \A c \in DOMAIN client_usage :
        /\ c \in DOMAIN usage_base
        /\ client_usage[c].memory_mb =
               usage_base[c].memory_mb + SumMemory(OpenAllocations(c))
        /\ client_usage[c].concurrent_processes =
               usage_base[c].concurrent_processes
                   + Cardinality(OpenAllocations(c))

\* usage was not zero beforehand, a pair has ended while another
\* allocation of the client is still open
C17_PairEndedOnUsedClient ==
    \E c \in DOMAIN client_usage :
        /\ c \in DOMAIN usage_base
        /\ usage_base[c].memory_mb > 0
        /\ \E a \in ClosedPairs(c) : a.required.memory_mb > 0
        /\ OpenAllocations(c) # {}

\* C18: under any sequence of allocate and release, releases without a
\* matching allocate included, memory usage and process count are never
\* negative and a release never increases either of them.
C18_UsageNeverNegative ==
    [][/\ \A c \in DOMAIN client_usage' :
              /\ client_usage'[c].memory_mb >= 0
              /\ client_usage'[c].concurrent_processes >= 0
       /\ \A c \in QuotaClients, pid \in Pids :
          \A used \in {NoRequirement}
                      \cup {ResourceRequirement(mb) : mb \in MemoryChoices} :
              Release(c, pid, used) =>
                  LET before == GetClientUsage(client_usage, c)[c]
                  IN /\ client_usage'[c].memory_mb <= before.memory_mb
                     /\ client_usage'[c].concurrent_processes
                            <= before.concurrent_processes]_vars

\* a release was served for a client that holds no allocation, while
\* another client holds an open allocation of some memory
C18_StrayReleaseServed ==
    \E c, d \in DOMAIN client_usage :
        /\ \A a \in allocated : a.client_id # c
        /\ client_usage[c] = ResourceUsage
        /\ \E a \in OpenAllocations(d) : a.required.memory_mb > 0

----------------------------------------------------------------------------
(* Properties of the document store *)

\* C15: whatever step of a save the process dies at, the target file holds
\* the complete previous JSON value or the complete new one, never a
\* partial or mixed document.
C15_TargetCompleteOldOrNew ==
    files[FilePath].exists =>
        \/ files[FilePath].content = JsonDump(store_committed)
        \/ /\ store_pc \in {"new", "replaced"}
           /\ files[FilePath].content = JsonDump(store_data)

\* the process died with a partial temp file next to a target that holds
\* another value than the one being saved
C15_CrashedMidWrite ==
    /\ store_pc = "new"
    /\ files[FilePath].exists
    /\ files[TempPath(FilePath)].exists
    /\ Len(files[TempPath(FilePath)].content) \in {1, 2}
    /\ JsonLoad(files[FilePath].content) # store_data

\* C16: whenever the store file exists (right after creation, after each
\* save, at every step in between, after a crash in the middle of a save)
\* its permission bits are owner-read-write only.
C16_TargetAlwaysOwnerOnly ==
    files[FilePath].exists => files[FilePath].mode = OwnerOnly

----------------------------------------------------------------------------
(* Properties of the client jails *)

\* the path, once resolved, lies in the jail directory of the client
UnderJail(base_dir, client_id, path) ==
    LET jail == Resolve(ClientDirectory(base_dir, client_id)).parts
        at == Resolve(ParsePath(path)).parts
    IN /\ Len(at) >= Len(jail)
       /\ \A i \in 1..Len(jail) : at[i] = jail[i]

\* C19: for distinct clients A and B and any path lying under B's jail
\* directory, validate_access(A, path) without the cross-client flag
\* returns false.
C19_NoAccessToOtherJail ==
    (iso_last.op = "validate_access" /\ ~iso_last.cross) =>
        \A b \in IsoClients \ {iso_last.client_id} :
            UnderJail(iso_last.base_dir, b, iso_last.path) =>
                ~iso_last.returned

\* alice asked for a file two levels down in bob's jail, spelled through
\* her own directory, and was refused
C19_OtherJailRefused ==
    /\ iso_last.op = "validate_access"
    /\ ~iso_last.cross
    /\ iso_last.client_id = "alice"
    /\ iso_last.base_dir.absolute
    /\ iso_last.path.parts = <<"srv", "alice", "..", "bob", "f">>
    /\ UnderJail(iso_last.base_dir, "bob", iso_last.path)
    /\ ~iso_last.returned

\* the path string starts with "/" or holds ".."
Escaping(s) ==
    \/ s.absolute
    \/ \E i \in 1..Len(s.parts) : s.parts[i] \in {"..", "x..y"}

\* C20: for every client and every path that contains ".." or starts with
\* "/", resolve_path raises the path-escape error and returns no path.
C20_EscapingPathRaises ==
    (iso_last.op = "resolve_path" /\ Escaping(iso_last.path)) =>
        (iso_last.raised /\ ~iso_last.returned)

\* a path with ".." behind a plain name was refused, under a base directory
\* where plain paths resolve
C20_DotDotAfterNameRefused ==
    /\ iso_last.op = "resolve_path"
    /\ iso_last.base_dir.absolute
    /\ iso_last.path = PathOf(FALSE, <<"f", "..">>)
    /\ iso_last.raised

\* C30: every call of grant and every call of revoke appends one entry to
\* the audit trail of the authorization engine.
C30_GrantAndRevokeAudited ==
    [][\A c \in PermClients :
          /\ \A g \in GrantChoices :
                 GrantPermission(c, g) => Len(perm_audit') = Len(perm_audit) + 1
          /\ \A t \in PermTypes :
                 RevokePermission(c, t) => Len(perm_audit') = Len(perm_audit) + 1]_vars

----------------------------------------------------------------------------
(* Properties of the tool timeout *)

\* C21: every tool call is bounded by tool.timeout: a call whose handler
\* has not finished within that many seconds ends with a timeout failure,
\* not a success and not a generic error, and its audit entry has the
\* status timeout.
C21_CallBoundedByTimeout ==
    \A i \in 1..Len(execution_log) :
        LET e == execution_log[i]
        IN (/\ e.request \in DOMAIN handler_clock
            /\ handler_clock[e.request].elapsed >= GetTool(e.tool_name).timeout)
               => e.status = "timeout"

----------------------------------------------------------------------------
(* Error replies of tools/call and of raised handlers *)

\* the code the error table gives to a failure class of the orchestrator
FailureCode(status) ==
    CASE status = "validation_error" -> INVALID_PARAMS
      [] status = "permission_denied" -> PERMISSION_DENIED
      [] OTHER -> EXECUTION_ERROR

LastEntry(log) == log[Len(log)]

\* C22: a tools/call that fails is answered on the wire with the code of its
\* failure class: -32602 for a validation failure, -32102 for a permission
\* denial, -32105 for a timeout or another execution failure.
C22_FailureAnsweredWithClassCode ==
    \A i \in 1..Len(wire) : \A j \in 1..Len(execution_log) :
        (/\ wire[i].reply.method = "tools/call"
         /\ wire[i].reply.id = execution_log[j].request
         /\ execution_log[j].status # "success")
            => wire[i].reply.code = FailureCode(execution_log[j].status)

\* C23: when a registered method handler ends by raising, the peer gets an
\* error reply with code -32603 that carries the id of the request, and the
\* protocol state of every connection is what it was.
C23_RaisedHandlerBecomesInternalError ==
    [][\A p \in Peers :
          (/\ Len(execution_log') = Len(execution_log) + 1
           /\ LastEntry(execution_log').status # "success"
           /\ pc'[p] # pc[p])
             => /\ pc'[p] = "reply"
                /\ response'[p].kind = "error"
                /\ response'[p].code = INTERNAL_ERROR
                /\ response'[p].id = LastEntry(execution_log').request
                /\ client_states' = client_states]_vars

\* a tool handler raised and its error reply went out
C23_RaisedHandlerAnswered ==
    \E i \in 1..Len(wire) : \E j \in 1..Len(execution_log) :
        /\ execution_log[j].status = "error"
        /\ wire[i].reply.id = execution_log[j].request
        /\ wire[i].reply.kind = "error"
        /\ wire[i].reply.code = INTERNAL_ERROR

----------------------------------------------------------------------------
(* shutdown *)

\* an initialize was answered on the wire
InitializeAnswered ==
    \E i \in 1..Len(wire) : /\ wire[i].reply.method = METHOD_INITIALIZE
                            /\ wire[i].reply.kind = "result"

\* C24: shutdown on an initialized connection is answered with the result
\* {status: ok} and makes the connection fresh again; from then on every
\* request other than initialize is rejected with INVALID_REQUEST until an
\* initialize arrives.
C24_ShutdownReturnsToFresh ==
    [][\A cid \in DOMAIN client_states :
          /\ (client_states[cid] /\ ~client_states'[cid])
                => \E p \in Peers : /\ pc[p] = "idle"
                                    /\ pc'[p] = "reply"
                                    /\ response'[p].kind = "result"
                                    /\ response'[p].method = METHOD_SHUTDOWN
          /\ (/\ InitializeAnswered
              /\ ~client_states[cid]
              /\ ~client_states'[cid]
              /\ total_requests' = total_requests + 1)
                => \E p \in Peers : /\ pc[p] = "idle"
                                    /\ pc'[p] = "reply"
                                    /\ response'[p].kind = "error"
                                    /\ response'[p].code = INVALID_REQUEST]_vars

\* C25: a request without an id is a notification: nothing is ever sent in
\* answer to it, neither a result nor an error.
C25_NotificationNeverAnswered ==
    /\ \A i \in 1..Len(wire) : wire[i].reply.id # NoId
    /\ \A p \in Peers : pc[p] = "reply" => response[p].id # NoId

----------------------------------------------------------------------------
(* Token registry: revocation by jti, uniqueness, cleanup *)

\* the connection has been initialized and not shut down since
ConnectionInitialized ==
    /\ DefaultClientKey \in DOMAIN clients
    /\ clients[DefaultClientKey].client_id \in DOMAIN client_states
    /\ client_states[clients[DefaultClientKey].client_id]

RevokeRequest(p, jti) ==
    Receive(p, Message("auth/revoke", [jti |-> jti], NextId), MaxAuthRequests)

\* C26: auth/revoke with the jti carried in an issued token, whose pair is
\* still in the registry, is answered with a result, leaves the row of the
\* pair revoked and appends an auth_token_revoked audit event.
C26_RevokeByTokenJti ==
    [][\A p \in AuthPeers : \A token \in issued :
          (/\ ConnectionInitialized
           /\ HashRows(tokens, token, token.token_type) # {}
           /\ RevokeRequest(p, JtiClaim(token)))
             => /\ response'[p].kind = "result"
                /\ \A i \in HashRows(tokens', token, token.token_type) :
                       tokens'[i].revoked
                /\ Len(audit_entries') = Len(audit_entries) + 1
                /\ LastEntry(audit_entries').event_type = "auth_token_revoked"]_vars

\* C27: no two rows of the token registry carry the same jti.
C27_JtiUnique ==
    \A i \in 1..Len(tokens) : \A j \in 1..Len(tokens) :
        i # j => tokens[i].jti # tokens[j].jti

\* C28: revoking a jti whose row is already revoked is answered with a
\* result and leaves the registry exactly as it was.
C28_RevocationIdempotent ==
    [][\A p \in AuthPeers : \A i \in 1..Len(tokens) :
          (/\ ConnectionInitialized
           /\ i = FirstOf(JtiRows(tokens, tokens[i].jti))
           /\ tokens[i].revoked
           /\ RevokeRequest(p, tokens[i].jti))
             => /\ response'[p].kind = "result"
                /\ tokens' = tokens]_vars

\* the step answers an auth/revoke request
RevokeStep ==
    \E p \in Peers : /\ pc[p] = "idle"
                     /\ pc'[p] = "reply"
                     /\ response'[p].method = "auth/revoke"

\* C29: a row of the registry changes only in a revoke, which sets its
\* revoked flag and timestamp; rows disappear only in a cleanup, which
\* removes exactly the rows whose refresh expiry has passed and keeps every
\* other row as it is.
C29_RowsChangeOnlyByRevokeAndCleanup ==
    [][/\ Len(tokens') >= Len(tokens)
            => \A i \in 1..Len(tokens) :
                   \/ tokens'[i] = tokens[i]
                   \/ /\ RevokeStep
                      /\ tokens'[i] = [tokens[i] EXCEPT !.revoked = TRUE,
                                                        !.revoked_at = now]
       /\ Len(tokens') < Len(tokens)
            => /\ total_requests' = total_requests
               /\ tokens' = SelectSeq(tokens,
                                      LAMBDA t : ~(t.refresh_expires_at <= now))]_vars

\* a cleanup purged an expired pair and kept a younger one
C29_ExpiredRowPurged ==
    /\ Len(tokens) >= 1
    /\ Cardinality({ i \in 1..Len(audit_entries) :
                        audit_entries[i].event_type = "auth_success" }) > Len(tokens)

----------------------------------------------------------------------------
(* SpecCred: the credential registry on its own.  Records are created,     *)
(* disabled, enabled and deleted, and callers authenticate.  The record's  *)
(* last_login, which nothing reads back, is left out.                      *)

CredUnchanged ==
    UNCHANGED <<protoVars, uuid_count, tools, execVars, tokens, audit_entries,
                issued, clockVars, ioVars, handler_runs, permVars, wireVars,
                quotaVars, storeVars, isoVars, handler_clock, procVars, tcpVars,
                stdioVars, checkVars>>

\* ClientManager.set_client_enabled; an unknown id raises ClientNotFoundError
SetClientEnabled(client_id, enabled) ==
    /\ cred_ops < MaxCredOps
    /\ cred_ops' = cred_ops + 1
    /\ IF FindByClientId(credentials, client_id) = {}
       THEN UNCHANGED <<credentials, cred_disabled>>
       ELSE /\ credentials' = SetEnabled(credentials, client_id, enabled)
            /\ cred_disabled' = IF enabled THEN cred_disabled \ {client_id}
                                ELSE cred_disabled \cup {client_id}
    /\ UNCHANGED last_auth
    /\ CredUnchanged

\* ClientManager.delete_client; an unknown id raises ClientNotFoundError
DeleteClient(client_id) ==
    /\ cred_ops < MaxCredOps
    /\ cred_ops' = cred_ops + 1
    /\ IF FindByClientId(credentials, client_id) = {}
       THEN UNCHANGED <<credentials, cred_disabled>>
       ELSE /\ credentials' = DeleteRecord(credentials, client_id)
            /\ cred_disabled' = cred_disabled \ {client_id}
    /\ UNCHANGED last_auth
    /\ CredUnchanged

\* ClientManager.authenticate called by the embedding application
AuthenticateCall(username, password) ==
    /\ cred_ops < MaxCredOps
    /\ cred_ops' = cred_ops + 1
    /\ last_auth' = [username |-> username, password |-> password,
                     outcome |-> Authenticate(credentials, username, password)]
    /\ UNCHANGED <<credentials, cred_disabled>>
    /\ CredUnchanged

CredIds == 1..MaxCredRecords

CredCreate ==
    /\ uuid_count < MaxCredRecords
    /\ \E username \in Usernames : \E password \in Passwords :
           CreateClient(username, password)

CredSetEnabled == \E id \in CredIds : \E enabled \in BOOLEAN : SetClientEnabled(id, enabled)
CredDelete == \E id \in CredIds : DeleteClient(id)
CredAuthenticate ==
    \E username \in Usernames : \E password \in Passwords :
        AuthenticateCall(username, password)

CredNext ==
    \/ CredCreate
    \/ CredSetEnabled
    \/ CredDelete
    \/ CredAuthenticate

SpecCred == Init /\ [][CredNext]_vars

\* C31: authenticate succeeds only when a record of the username exists, is
\* enabled and holds the hash of the password; while the last
\* set_client_enabled call for the record said False, authenticate fails
\* whatever the password.
C31_AuthenticateNeedsEnabledRecord ==
    [][\A username \in Usernames : \A password \in Passwords :
          AuthenticateCall(username, password)
             => /\ last_auth'.outcome = "ok"
                     => \E i \in 1..Len(credentials) :
                            /\ credentials[i].username = username
                            /\ credentials[i].enabled
                            /\ VerifyPassword(password, credentials[i].password_hash)
                /\ (\E i \in 1..Len(credentials) :
                        /\ credentials[i].username = username
                        /\ credentials[i].client_id \in cred_disabled)
                     => last_auth'.outcome # "ok"]_vars

\* a disabled record was refused with its own password
C31_DisabledRefusedWithRightPassword ==
    /\ last_auth.outcome = "AuthenticationError"
    /\ \E i \in 1..Len(credentials) :
           /\ credentials[i].username = last_auth.username
           /\ credentials[i].client_id \in cred_disabled
           /\ VerifyPassword(last_auth.password, credentials[i].password_hash)

----------------------------------------------------------------------------
(* SpecProc: executor calls, one after the other *)

ProcBegin ==
    \E handles_term \in BOOLEAN : \E timeout \in ProcTimeouts :
        ExecuteBegins(handles_term, timeout)
ProcFinish == \E result \in {"success", "error"} : WorkerFinishes(result)

ProcNext ==
    \/ ProcBegin
    \/ WorkerRuns
    \/ ProcFinish
    \/ ExecuteTimesOut
    \/ GraceEnds
    \/ ExecuteCancelled

SpecProc == Init /\ [][ProcNext]_vars

C39_NoWorkerLeftRunning ==
    \A i \in 1..Len(proc_log) : ~proc_log[i].running

----------------------------------------------------------------------------
(* The TCP transport: peers connect and write frames, the handler tasks    *)
(* run, the transport is stopped.                                          *)

TcpConnect == \E p \in Peers : PeerConnects(p)
TcpSend == \E p \in Peers : \E frame \in TcpFrames : PeerSends(p, frame)
TcpHandlerStarts == \E p \in Peers : HandlerStarts(p)
TcpHandlerEnds == \E p \in Peers : HandlerEnds(p)
TcpStopStep == \E p \in Peers : TcpStopCloses(p)

TcpNext ==
    \/ TcpStart
    \/ TcpConnect
    \/ TcpSend
    \/ TcpHandlerStarts
    \/ TcpHandlerEnds
    \/ TcpStopBegins
    \/ TcpStopStep

SpecTcp == Init /\ [][TcpNext]_vars

\* the event loop runs every task that is ready: a handler task that was
\* created starts, an awaited close completes
SpecTcpLive ==
    /\ SpecTcp
    /\ WF_vars(TcpHandlerStarts)
    /\ WF_vars(TcpHandlerEnds)
    /\ WF_vars(TcpStopStep)

TcpRequestSent(p) == \E i \in 1..Len(tcp_sent[p]) : tcp_sent[p][i] = "request"
TcpDispatchedFor(p) ==
    \E i \in 1..Len(tcp_dispatched) : tcp_dispatched[i].peer = p

\* C38: a request written by a connected peer of the started TCP transport
\* is eventually dispatched (and so answered), unless the transport is
\* stopped first.
C38_RequestEventuallyDispatched ==
    \A p \in Peers :
        TcpRequestSent(p) ~> (TcpDispatchedFor(p) \/ tcp_stop # "none")

\* C33: while the transport runs, a peer that was accepted stays connected
\* whatever another peer sends: an oversize frame of one peer closes no
\* other peer.
C33_OversizeClosesOnlyItsPeer ==
    \A p \in Peers : \A q \in Peers \ {p} :
        (/\ \E i \in 1..Len(tcp_sent[p]) : tcp_sent[p][i] = "oversize"
         /\ tcp_sent[q] = << >>
         /\ tcp_handler[q] # "none"
         /\ tcp_stop = "none")
            => tcp_handler[q] \notin {"closing", "ended"}

\* C35: once stop has returned, no per-peer handler task is still alive.
C35_NoTaskAfterStop ==
    tcp_stop = "returned"
        => \A p \in Peers : tcp_handler[p] \in {"none", "ended"}

----------------------------------------------------------------------------
(* The stdio transport from start to stop.                                 *)

StdioWrite == \E line \in StdinLines : StdinWrites(line)

StdioNext ==
    \/ StdioStart
    \/ StdioWrite
    \/ StdinCloses
    \/ ReadLoopReads
    \/ WriteLoopWrites
    \/ StdioStop

SpecStdio == Init /\ [][StdioNext]_vars

\* the event loop runs the two tasks whenever they can take a turn; nothing
\* obliges the owner of the transport to call stop
SpecStdioLive ==
    /\ SpecStdio
    /\ WF_vars(ReadLoopReads)
    /\ WF_vars(WriteLoopWrites)

StdioStopped ==
    /\ ~st_running
    /\ read_task # "running"
    /\ write_task # "running"

\* C34: once standard input of the started transport is at end of file,
\* the transport eventually is stopped: both loops have ended and
\* is_running is false.
C34_EofStopsTransport ==
    (read_task # "none" /\ stdin_eof) ~> StdioStopped

----------------------------------------------------------------------------
(* The quota tracker used as intended: a caller checks availability for    *)
(* the process it is about to start, starts it, allocates what it checked  *)
(* for, and releases it when the process has ended.  The calls of several  *)
(* callers interleave.                                                     *)

CheckMemory == {256, 384}

CheckedCheck(client_id, pid, memory_mb) ==
    /\ quota_ops < MaxQuotaOps
    /\ \A c \in checked : c.pid # pid
    /\ CheckCall(client_id, pid, ResourceRequirement(memory_mb))
    /\ quota_ops' = quota_ops + 1

CheckedAllocate(client_id, pid) ==
    /\ quota_ops < MaxQuotaOps
    /\ \A a \in allocated : a.pid # pid
    /\ \E c \in checked :
           /\ c.client_id = client_id
           /\ c.pid = pid
           /\ Allocate(client_id, pid, c.required)
    /\ quota_ops' = quota_ops + 1

CheckedRelease(client_id, pid) ==
    /\ quota_ops < MaxQuotaOps
    /\ \E a \in allocated :
           /\ a.client_id = client_id
           /\ a.pid = pid
           /\ a.open
           /\ Release(client_id, pid, a.required)
    /\ quota_ops' = quota_ops + 1

CheckedNext ==
    \/ \E c \in QuotaClients, pid \in Pids, mb \in CheckMemory :
           CheckedCheck(c, pid, mb)
    \/ \E c \in QuotaClients, pid \in Pids : CheckedAllocate(c, pid)
    \/ \E c \in QuotaClients, pid \in Pids : CheckedRelease(c, pid)

SpecChecked == Init /\ [][CheckedNext]_vars

\* C36: when every allocation follows a check for the same requirement that
\* returned allowed without override, no client's memory usage exceeds its
\* memory quota and no client's process count exceeds its process quota.
C36_CheckedUsageWithinQuota ==
    \A c \in DOMAIN client_usage :
        /\ client_usage[c].memory_mb <= ClientQuotas.memory_mb
        /\ client_usage[c].concurrent_processes <= ClientQuotas.concurrent_processes

----------------------------------------------------------------------------
(* Refreshed access tokens *)

\* this step answers an auth/refresh request of peer p with an access token
TokenRefreshed(p) ==
    /\ Handled(p)
    /\ response'[p].method = "auth/refresh"
    /\ response'[p].kind = "result"

\* C40: right after a successful auth/refresh the access token just handed
\* out is accepted by the minter, and the registry finds a row for its hash
\* that is not revoked.
C40_RefreshedTokenIsValid ==
    [][\A p \in Peers :
          TokenRefreshed(p)
              => \E token \in response'[p].tokens :
                    /\ token.token_type = "access"
                    /\ Verify(token, now') = "ok"
                    /\ ValidateToken(tokens', token, "access") = "valid"]_vars

====
